---- MODULE Spec2Model ----
(***************************************************************************)
(* Model of the wrap resolver of mesonbuild/wrap/wrap.py: the descriptor   *)
(* parser (PackageDefinition), the provider registry (add_wrap,            *)
(* merge_wraps), the registry index (get_from_wrapdb), the download and    *)
(* integrity code (get_data, download, get_file_internal) and              *)
(* Resolver.resolve with its transports.                                   *)
(*                                                                         *)
(* Program strings are strings; lower(), startswith(), endswith(), slicing *)
(* and "in" are computed on their characters.  Paths are sequences of      *)
(* strings, one per path component.                                        *)
(***************************************************************************)
EXTENDS Integers, Sequences, FiniteSets, TLC

VARIABLES
    fs,                 \* the file system: path -> node [k, v]
    cfg,                \* Resolver fields and module globals fixed at start
    pc,                 \* position of the running operation
    heap,               \* the PackageDefinition objects, by reference
    wraps,              \* Resolver.wraps: name -> PackageDefinition (reference)
    provided_deps,      \* Resolver.provided_deps: name -> PackageDefinition
    provided_programs,  \* Resolver.provided_programs: name -> PackageDefinition
    wrapdb,             \* Resolver.wrapdb: name -> info
    wrapdb_provided_deps,      \* dependency name -> name in the registry
    wrapdb_provided_programs,  \* program name -> name in the registry
    call,               \* locals and self.* fields of the running resolve
    dl,                 \* locals of the running download()
    events,             \* what the running operation did, in order
    res,                \* outcome of the last finished operation
    hist,               \* bookkeeping: resolve calls made, requests failed,
                        \* whether the warning given once was given
    workers             \* the calls that download into one cache side by side

vars == <<fs, cfg, pc, heap, wraps, provided_deps, provided_programs, wrapdb,
          wrapdb_provided_deps, wrapdb_provided_programs, call, dl, events, res, hist,
          workers>>

\* what no step of one resolver changes
fixed == <<cfg, workers>>

\* what load_wrapdb fills
index == <<wrapdb, wrapdb_provided_deps, wrapdb_provided_programs>>

----------------------------------------------------------------------------
(* Strings *)

\* Python's None, distinct from every string
NoneV == "<None>"

LowerCh(c) ==
    LET up == "ABCDEFGHIJKLMNOPQRSTUVWXYZ"
        lo == "abcdefghijklmnopqrstuvwxyz"
    IN  IF \E i \in 1..26 : SubSeq(up, i, i) = c
        THEN LET i == CHOOSE i \in 1..26 : SubSeq(up, i, i) = c IN SubSeq(lo, i, i)
        ELSE c

\* str.lower()
RECURSIVE Lower(_)
Lower(s) == IF s = "" THEN "" ELSE LowerCh(Head(s)) \o Lower(Tail(s))

\* str.startswith / str.endswith / "p in s"
StartsWith(s, p) == Len(s) >= Len(p) /\ SubSeq(s, 1, Len(p)) = p
EndsWith(s, p) == Len(s) >= Len(p) /\ SubSeq(s, Len(s) - Len(p) + 1, Len(s)) = p
Contains(s, p) == \E i \in 1..(Len(s) - Len(p) + 1) : SubSeq(s, i, i + Len(p) - 1) = p

\* dict helpers: d.get(k, default), and the elements of a list
Get(d, k, default) == IF k \in DOMAIN d THEN d[k] ELSE default
Range(s) == {s[i] : i \in DOMAIN s}
EmptyMap == [x \in {} |-> NoneV]

----------------------------------------------------------------------------
(* Paths and the file system *)

basename(p) == p[Len(p)]
dirname(p) == SubSeq(p, 1, Len(p) - 1)
IsPrefix(p, q) == Len(p) <= Len(q) /\ SubSeq(q, 1, Len(p)) = p

\* Resolver.source_dir, Resolver.subdir and the fields __post_init__ derives
source_dir == <<"src">>
subdir_root == source_dir \o <<"subprojects">>
cachedir == subdir_root \o <<"packagecache">>

\* os.path.relpath(p, source_dir) for a path below source_dir
relpath(p, start) == IF IsPrefix(start, p) THEN SubSeq(p, Len(start) + 1, Len(p)) ELSE p

Node(k, v) == [k |-> k, v |-> v]
exists(f, p) == p \in DOMAIN f
isdir(f, p) == p \in DOMAIN f /\ f[p].k = "dir"
isfile(f, p) == p \in DOMAIN f /\ f[p].k # "dir"

\* The text of a hash file is the sequence of what it holds: digests and
\* white space.  str.strip() drops the white space at both ends.
Newline == [space |-> "\n"]
RECURSIVE strip(_)
strip(text) ==
    IF text = <<>> THEN text
    ELSE IF Head(text) = Newline THEN strip(Tail(text))
    ELSE IF text[Len(text)] = Newline THEN strip(SubSeq(text, 1, Len(text) - 1))
    ELSE text

\* writing one file, and shutil.rmtree of a directory
WriteFile(f, p, node) == (p :> node) @@ f
RemoveTree(f, p) == [q \in {x \in DOMAIN f : ~IsPrefix(p, x)} |-> f[q]]
RemoveFile(f, p) == [q \in DOMAIN f \ {p} |-> f[q]]

----------------------------------------------------------------------------
(* PackageDefinition: the descriptor parser *)

\* A wrap file's text as configparser reads it: whether it is unparsable, the
\* name of its first section, that section's items, the items of [provide]
\* in file order and the items of [cargo].
NoSection == ""
WrapText(sec, vals, provide, cargo) ==
    [malformed |-> FALSE, sec |-> sec, vals |-> vals, provide |-> provide, cargo |-> cargo]
MalformedText == [WrapText(NoSection, EmptyMap, <<>>, EmptyMap) EXCEPT !.malformed = TRUE]

Raise(exc, d) == [exc |-> exc, d |-> d]
Ok(d) == [exc |-> "", d |-> d]

ALL_TYPES == {"file", "git", "hg", "svn"}

\* parse_wrap_section
parse_wrap_section(d, text) ==
    IF text.sec = NoSection THEN Raise("WrapException", d)
    ELSE IF ~StartsWith(text.sec, "wrap-") THEN Raise("WrapException", d)
    ELSE
        LET d1 == [d EXCEPT !.type = SubSeq(text.sec, 6, Len(text.sec)),
                            !.values = text.vals]
            diffs == Get(text.vals, "diff_files", <<>>)
            bad(path) == (Len(path) > 0 /\ path[1] = "/") \/ ".." \in Range(path)
        IN  IF \E i \in DOMAIN diffs : bad(diffs[i]) THEN Raise("WrapException", d1)
            ELSE Ok([d1 EXCEPT !.diff_files = d.diff_files \o diffs])

\* dict insertion order: the keys of a dict, with the new ones of xs appended
RECURSIVE AppendNew(_, _, _)
AppendNew(keys, xs, i) ==
    IF i > Len(xs) THEN keys
    ELSE AppendNew(IF xs[i] \in Range(keys) THEN keys ELSE Append(keys, xs[i]), xs, i + 1)

\* parse_provide_section: the items of [provide] from item i on
RECURSIVE parse_provide_section(_, _, _)
parse_provide_section(d, items, i) ==
    IF i > Len(items) THEN Ok(d)
    ELSE
        LET k == Lower(items[i].k)
            v == items[i].v
        IN  IF k = "dependency_names"
            THEN parse_provide_section(
                     [d EXCEPT !.provided_deps =
                         [n \in {Lower(x) : x \in Range(v)} |-> NoneV] @@ d.provided_deps,
                               !.dep_keys = AppendNew(d.dep_keys, [j \in DOMAIN v |-> Lower(v[j])], 1)],
                     items, i + 1)
            ELSE IF k = "program_names"
            THEN parse_provide_section(
                     [d EXCEPT !.provided_programs = d.provided_programs \o v], items, i + 1)
            ELSE IF v = "" THEN Raise("WrapException", d)
            ELSE parse_provide_section(
                     [d EXCEPT !.provided_deps = (k :> v) @@ d.provided_deps,
                               !.dep_keys = AppendNew(d.dep_keys, <<k>>, 1)],
                     items, i + 1)

\* Python's recursion limit, scaled down: the depth at which a recursion
\* that never ends raises RecursionError
MaxRecursion == 3

\* the text of the wrap file at path, as configparser reads it
ReadWrap(f, path) ==
    IF exists(f, path) /\ f[path].k = "wrap" THEN f[path].v
    ELSE WrapText(NoSection, EmptyMap, <<>>, EmptyMap)

\* parse_wrap, lines 184-204: the redirect to fname, a path relative to the
\* directory of the redirect file; target is the wrap file it names
RedirectError(fname, target, f) ==
    \/ \E j \in DOMAIN fname : \/ (j % 2 = 1 /\ fname[j] = "..")
                               \/ (j % 2 = 0 /\ fname[j] # "subprojects")
    \/ fname = <<>>
    \/ ~(EndsWith(fname[Len(fname)], ".wrap") /\ Len(fname[Len(fname)]) > 5)
    \/ ~isfile(f, target)

RedirectTarget(filename, fname) ==
    IF Len(fname) > 0 /\ fname[1] = "/" THEN fname ELSE dirname(filename) \o fname

\* parse_wrap: d is the descriptor after parse_wrap_section read text
RECURSIVE parse_wrap(_, _, _)
parse_wrap_rest(d, text, f, depth) ==
    IF d.type = "redirect"
    THEN IF "filename" \notin DOMAIN d.values THEN Raise("KeyError", d)
         ELSE IF RedirectError(d.values["filename"],
                               RedirectTarget(d.filename, d.values["filename"]), f)
         THEN Raise("WrapException", d)
         ELSE parse_wrap([d EXCEPT !.filename = RedirectTarget(d.filename, d.values["filename"]),
                                   !.redirected = TRUE], f, depth + 1)
    ELSE parse_provide_section([d EXCEPT !.cargo_values = text.cargo, !.has_cargo_values = TRUE],
                               text.provide, 1)

parse_wrap_text(d, s, text, f, depth) ==
    IF text.malformed THEN Raise("WrapException", d)
    ELSE IF s.exc # "" THEN s
    ELSE parse_wrap_rest(s.d, text, f, depth)

parse_wrap(d, f, depth) ==
    IF depth > MaxRecursion THEN Raise("RecursionError", d)
    ELSE parse_wrap_text(d, parse_wrap_section(d, ReadWrap(f, d.filename)),
                         ReadWrap(f, d.filename), f, depth)

\* PackageDefinition.__init__, lines 150-166: the fields before the parse
NewDescriptor(fname, base, has_wrap) ==
    [filename |-> fname,
     type |-> NoneV,
     values |-> EmptyMap,
     provided_deps |-> (Lower(IF has_wrap THEN SubSeq(base, 1, Len(base) - 5) ELSE base) :> NoneV),
     dep_keys |-> <<Lower(IF has_wrap THEN SubSeq(base, 1, Len(base) - 5) ELSE base)>>,
     provided_programs |-> <<>>,
     diff_files |-> <<>>,
     basename |-> base,
     has_wrap |-> has_wrap,
     name |-> IF has_wrap THEN SubSeq(base, 1, Len(base) - 5) ELSE base,
     original_filename |-> fname,
     redirected |-> FALSE,
     cargo_values |-> EmptyMap,
     has_cargo_values |-> FALSE,
     wrapfile_hash |-> <<>>,
     directory |-> NoneV]

\* lines 167-175: the hash of the file the descriptor was made from, the
\* directory and the checks on both
\* the directory is not checked
CheckTypeOnly(d) ==
    IF d.type \notin {NoneV, ""} /\ d.type \notin ALL_TYPES THEN Raise("WrapException", d)
    ELSE Ok(d)

\* line 173 tests the truth of self.type: None and "" pass unchecked
CheckDescriptor(d) ==
    IF Contains(d.directory, "/") THEN Raise("WrapException", d)
    ELSE IF d.type \notin {NoneV, ""} /\ d.type \notin ALL_TYPES THEN Raise("WrapException", d)
    ELSE Ok(d)

FinishDescriptor(p, f) ==
    IF p.exc # "" THEN p
    ELSE CheckDescriptor([p.d EXCEPT !.wrapfile_hash = IF p.d.has_wrap
                                                       THEN <<f[p.d.original_filename].v>> ELSE <<>>,
                                     !.directory = Get(p.d.values, "directory", p.d.name)])

\* PackageDefinition.__init__
PackageDefinition(fname, f) ==
    IF EndsWith(basename(fname), ".wrap")
    THEN FinishDescriptor(parse_wrap(NewDescriptor(fname, basename(fname), TRUE), f, 1), f)
    ELSE FinishDescriptor(Ok(NewDescriptor(fname, basename(fname), FALSE)), f)

\* PackageDefinition.filesdir
filesdir(d) == dirname(d.filename) \o <<"packagefiles">>

----------------------------------------------------------------------------
(* The provider registry *)

\* A PackageDefinition object is referred to by the path it was constructed
\* from (original_filename): a resolver constructs at most one per path.
\* heap maps the references to the objects; wraps, provided_deps and
\* provided_programs hold references.
Registry(heap_, ws, deps, progs, log, exc) ==
    [heap |-> heap_, wraps |-> ws, deps |-> deps, progs |-> progs, log |-> log, exc |-> exc]

\* add_wrap: the keys of wrap.provided_deps, then wrap.provided_programs, in
\* order; the first name that is already registered raises.  The result holds
\* the registries as the call leaves them.
RECURSIVE add_wrap_from(_, _, _, _, _)
add_wrap_from(w, names, i, deps, progs) ==
    IF i > Len(names) THEN [exc |-> "", deps |-> deps, progs |-> progs]
    ELSE
        LET n == names[i].n
            reg == IF names[i].dep THEN deps ELSE progs
        IN  IF n \in DOMAIN reg
            THEN [exc |-> "WrapException", deps |-> deps, progs |-> progs]
            ELSE IF names[i].dep
            THEN add_wrap_from(w, names, i + 1, (n :> w.original_filename) @@ deps, progs)
            ELSE add_wrap_from(w, names, i + 1, deps, (n :> w.original_filename) @@ progs)

\* the registries are put back as they were when a name is taken
Rollback(r, deps, progs) ==
    IF r.exc # "" THEN [r EXCEPT !.deps = deps, !.progs = progs] ELSE r
add_wrap_or_nothing(w, deps, progs) ==
    Rollback(add_wrap_from(w,
                 [i \in DOMAIN w.dep_keys |-> [dep |-> TRUE, n |-> w.dep_keys[i]]]
                     \o [i \in DOMAIN w.provided_programs |->
                            [dep |-> FALSE, n |-> w.provided_programs[i]]],
                 1, deps, progs),
             deps, progs)

add_wrap(w, deps, progs) ==
    add_wrap_from(w,
        [i \in DOMAIN w.dep_keys |-> [dep |-> TRUE, n |-> w.dep_keys[i]]]
            \o [i \in DOMAIN w.provided_programs |-> [dep |-> FALSE, n |-> w.provided_programs[i]]],
        1, deps, progs)

\* add_wrap on a registry, with the call noted in the log
AddWrap(w, st) ==
    LET r == add_wrap(w, st.deps, st.progs)
    IN  Registry(st.heap, st.wraps, r.deps, r.progs,
                 Append(st.log, [k |-> "add_wrap", w |-> w.original_filename, exc |-> r.exc,
                                 dep_names |-> Range(w.dep_keys),
                                 program_names |-> Range(w.provided_programs),
                                 pre_deps |-> st.deps, pre_progs |-> st.progs,
                                 deps |-> r.deps, progs |-> r.progs]),
                 r.exc)

\* load_wraps, second loop: add_wrap for the descriptors of order, from i on
RECURSIVE add_all(_, _, _)
add_all(order, i, st) ==
    IF i > Len(order) THEN st
    ELSE
        LET st1 == AddWrap(st.heap[st.wraps[order[i]]], st)
        IN  IF st1.exc # "" THEN st1 ELSE add_all(order, i + 1, st1)

\* the entries of directory root: the .wrap files and the directories
Children(f, root) == {p \in DOMAIN f : Len(p) = Len(root) + 1 /\ dirname(p) = root}
WrapFiles(f, root) == {p \in Children(f, root) : EndsWith(basename(p), ".wrap")}

\* load_wraps, end of the first loop and the second loop: the descriptors
\* all are entered in wraps, and add_wrap is called for each unless a wrap
\* file failed to parse with exc
load_wraps_register(all, exc, st) ==
    LET hp == [o \in {all[i].original_filename : i \in DOMAIN all} |->
                  all[CHOOSE i \in DOMAIN all : all[i].original_filename = o]] @@ st.heap
        ws == [n \in {all[i].name : i \in DOMAIN all} |->
                  all[CHOOSE i \in DOMAIN all : all[i].name = n].original_filename] @@ st.wraps
    IN  IF exc # "" THEN Registry(hp, ws, st.deps, st.progs, st.log, exc)
        ELSE add_all([i \in DOMAIN all |-> all[i].name], 1,
                     Registry(hp, ws, st.deps, st.progs, st.log, ""))

\* load_wraps, the directories: those no wrap file names get a descriptor;
\* parsed are the descriptors of the wrap files read before exc was raised
load_wraps_dirs(f, parsed, exc, dirs, st) ==
    LET ignore_dirs == {"packagecache", "packagefiles"}
                          \cup {parsed[i].directory : i \in DOMAIN parsed}
                          \cup {parsed[i].name : i \in DOMAIN parsed}
        keep == SelectSeq(dirs, LAMBDA p : basename(p) \notin ignore_dirs)
    IN  IF exc # "" THEN load_wraps_register(parsed, exc, st)
        ELSE load_wraps_register(
                 parsed \o [i \in DOMAIN keep |-> PackageDefinition(keep[i], f).d], "", st)

\* load_wraps, the wrap files: pds are the results of the constructor for
\* the files in the order of the listing; the first failure ends the scan
load_wraps_files(f, pds, failed, dirs, st) ==
    IF failed = {} THEN load_wraps_dirs(f, [i \in DOMAIN pds |-> pds[i].d], "", dirs, st)
    ELSE LET first == CHOOSE i \in failed : \A j \in failed : i <= j
         IN  load_wraps_dirs(f, [i \in 1..(first - 1) |-> pds[i].d], pds[first].exc, dirs, st)

\* load_wraps on directory root, os.walk listing the wrap files in the order
\* files and the directories in the order dirs.  File names are unique in a
\* directory, so no two entries share a name.
load_wraps(f, root, files, dirs, st) ==
    IF ~isdir(f, root) THEN st
    ELSE LET pds == [i \in DOMAIN files |-> PackageDefinition(files[i], f)]
         IN  load_wraps_files(f, pds, {i \in DOMAIN pds : pds[i].exc # ""}, dirs, st)

\* merge_wraps with update in place of setdefault: the other resolver's entry
\* replaces the one that is there
merge_wraps_update(st, other) ==
    Registry(other.heap @@ st.heap, other.wraps @@ st.wraps, other.deps @@ st.deps,
             other.progs @@ st.progs, st.log, "")

\* merge_wraps: setdefault of every entry of the other resolver
merge_wraps(st, other) ==
    Registry(st.heap @@ other.heap, st.wraps @@ other.wraps, st.deps @@ other.deps,
             st.progs @@ other.progs, st.log, "")

----------------------------------------------------------------------------
(* Inputs: names, wrap file texts and the file systems the runs start from *)

\* the subprojects directory of subproject a, and a wrap file's path
sub_root == subdir_root \o <<"a", "subprojects">>
\* the same of a subproject a whose project() sets subproject_dir to deps
deps_root == subdir_root \o <<"a", "deps">>
SubRoots == {sub_root, deps_root}
WrapPath(root, name) == root \o <<name \o ".wrap">>

Section(type) == "wrap-" \o type
Item(k, v) == [k |-> k, v |-> v]

\* a redirect file as resolve writes it, pointing at a wrap file below subdir_root
RedirectText(target) ==
    WrapText(Section("redirect"), [filename |-> relpath(target, subdir_root)], <<>>, EmptyMap)

\* a member of the object in wrapdb.json
Member(name, info) == [name |-> name, info |-> info]

Dirs(paths) == [p \in paths |-> Node("dir", NoneV)]
BaseFS == Dirs({source_dir, subdir_root})

Wrap(type, vals, provide) == Node("wrap", WrapText(Section(type), vals, provide, EmptyMap))
GitHead == [url |-> "https://ex.com/r.git", revision |-> "HEAD"]
Blob(v) == Node("blob", v)

\* the bounds on the resolve calls of a run and on the requests the network fails
MaxCalls == 2
MaxFaults == 6

\* the resolver's settings and what the interpreter asks of it in a run
NoCargo == [none |-> TRUE, map |-> EmptyMap]
CargoDict(m) == [none |-> FALSE, map |-> m]
Ask(name, method, cargo) == [name |-> name, method |-> method, cargo |-> cargo]
DefaultCfg ==
    [wrap_mode |-> "default", GIT |-> TRUE, PATCH |-> TRUE, HG |-> TRUE, SVN |-> TRUE,
     has_ssl |-> TRUE, allow_insecure |-> FALSE, requests |-> {},
     dep_queries |-> {}, program_queries |-> {}, recorded |-> [known |-> FALSE],
     netrc |-> [none |-> TRUE, map |-> EmptyMap]]
Scenario(f, asks) == [fs |-> f @@ BaseFS, cfg |-> [DefaultCfg EXCEPT !.requests = asks]]

\* two wrap files of the main project that both provide dependency foo
S_conflict ==
    Scenario((WrapPath(subdir_root, "b") :> Wrap("git", GitHead, <<Item("dependency_names", <<"Foo">>)>>))
             @@ (WrapPath(subdir_root, "c") :> Wrap("git", GitHead, <<Item("foo", "foo_dep")>>)),
             {Ask("b", "meson", NoCargo)})

\* one wrap file that names a program twice
S_twice ==
    Scenario((WrapPath(subdir_root, "b") :>
                 Wrap("git", GitHead, <<Item("program_names", <<"prog", "prog">>)>>)),
             {Ask("b", "meson", NoCargo)})

\* subproject a ships wraps that provide what the main project's wraps provide
S_merge ==
    Scenario((WrapPath(subdir_root, "b") :>
                 Wrap("git", GitHead, <<Item("dependency_names", <<"foo">>),
                                        Item("program_names", <<"prog">>)>>))
             @@ (WrapPath(sub_root, "c") :>
                 Wrap("git", GitHead, <<Item("foo", "foo_dep"), Item("program_names", <<"prog">>)>>))
             @@ (WrapPath(sub_root, "b") :> Wrap("git", GitHead, <<>>))
             @@ Dirs({subdir_root \o <<"a">>, sub_root}),
             {Ask("c", "meson", NoCargo), Ask("zz", "meson", NoCargo)})

\* git wraps: a tag, HEAD in two spellings with and without depth, a commit id
S_git ==
    Scenario((WrapPath(subdir_root, "b") :> Wrap("git", [GitHead EXCEPT !.revision = "v1"], <<>>))
             @@ (WrapPath(subdir_root, "c") :> Wrap("git", [GitHead EXCEPT !.revision = "Head"], <<>>))
             @@ (WrapPath(subdir_root, "d") :>
                 Wrap("git", [url |-> "https://ex.com/r.git", revision |-> "head", depth |-> "1"], <<>>))
             @@ (WrapPath(subdir_root, "e") :>
                 Wrap("git", [url |-> "https://ex.com/r.git", depth |-> "1",
                              revision |-> "0123456789abcdef0123456789ABCDEF01234567"], <<>>)),
             {Ask(n, "meson", NoCargo) : n \in {"b", "c", "d", "e"}})

\* hg and svn wraps
S_hg_svn ==
    Scenario((WrapPath(subdir_root, "b") :>
                 Wrap("hg", [url |-> "https://ex.com/r.hg", revision |-> "1.0"], <<>>))
             @@ (WrapPath(subdir_root, "c") :>
                 Wrap("svn", [url |-> "https://ex.com/svn", revision |-> "HEAD"], <<>>)),
             {Ask("b", "meson", NoCargo), Ask("c", "meson", NoCargo)})

\* a file wrap with a fallback URL, a patch directory and a diff file
S_file ==
    Scenario((WrapPath(subdir_root, "b") :>
                 Wrap("file", [source_url |-> "https://ex.com/src-1.0.tgz",
                               source_fallback_url |-> "https://mirror.ex.com/src-1.0.tgz",
                               source_filename |-> "src-1.0.tgz",
                               source_hash |-> "H(SRC-1.0)",
                               patch_directory |-> "b",
                               diff_files |-> << <<"fix.diff">> >>], <<>>))
             @@ Dirs({subdir_root \o <<"packagefiles">>, subdir_root \o <<"packagefiles", "b">>})
             @@ (subdir_root \o <<"packagefiles", "b", "meson.build">> :> Blob("project"))
             @@ (subdir_root \o <<"packagefiles", "fix.diff">> :> Blob("diff")),
             {Ask("b", "meson", NoCargo)})

\* a file wrap whose source is shipped and whose patch is downloaded
S_patch ==
    Scenario((WrapPath(subdir_root, "b") :>
                 Wrap("file", [source_filename |-> "src-1.0.tgz",
                               patch_url |-> "https://ex.com/patch-1.0.tgz",
                               patch_filename |-> "patch-1.0.tgz",
                               patch_hash |-> "h(patch-1.0)"], <<>>))
             @@ Dirs({subdir_root \o <<"packagefiles">>})
             @@ (subdir_root \o <<"packagefiles", "src-1.0.tgz">> :> Blob("src-1.0")),
             {Ask("b", "meson", NoCargo)})

\* wrap files that name a patch both ways; the directory of c is there
S_clash ==
    Scenario((WrapPath(subdir_root, "b") :>
                 Wrap("git", GitHead @@ [patch_directory |-> "b", patch_filename |-> "p.tgz"], <<>>))
             @@ (WrapPath(subdir_root, "c") :>
                 Wrap("git", GitHead @@ [patch_directory |-> "c", patch_filename |-> "p.tgz"], <<>>))
             @@ Dirs({subdir_root \o <<"c">>})
             @@ (subdir_root \o <<"c", "meson.build">> :> Blob("project")),
             {Ask("b", "meson", NoCargo), Ask("c", "meson", NoCargo)})

\* file wraps whose URLs name the registry's domain in the host or in the path
S_hosts ==
    Scenario((WrapPath(subdir_root, "b") :>
                 Wrap("file", [source_url |-> "https://evilwrapdb.mesonbuild.com/src-1.0.tgz",
                               source_filename |-> "src-1.0.tgz",
                               source_hash |-> "h(src-1.0)"], <<>>))
             @@ (WrapPath(subdir_root, "c") :>
                 Wrap("file", [source_url |-> "https://wrapdb.mesonbuild.com/v2/c_1.0-1/get_patch",
                               source_filename |-> "c-1.0.tgz",
                               source_hash |-> "h(src-1.0)"], <<>>))
             @@ (WrapPath(subdir_root, "d") :>
                 Wrap("file", [source_url |-> "https://ex.com/wrapdb.mesonbuild.com/src-1.0.tgz",
                               source_filename |-> "d-1.0.tgz",
                               source_hash |-> "h(src-1.0)"], <<>>)),
             {Ask("b", "meson", NoCargo), Ask("c", "meson", NoCargo), Ask("d", "meson", NoCargo)})

\* the main project has a wrapdb.json; the registry serves a wrap file for d
\* that provides what b.wrap provides, and one for e, whose directory is there
\* as a cargo subproject
S_wrapdb ==
    Scenario((WrapPath(subdir_root, "b") :> Wrap("git", GitHead, <<Item("dependency_names", <<"foo">>)>>))
             @@ (subdir_root \o <<"wrapdb.json">> :>
                 Node("json", <<Member("d", [versions |-> <<"1.0-1">>]),
                                Member("e", [versions |-> <<"1.0-1">>])>>))
             @@ Dirs({subdir_root \o <<"e-1">>})
             @@ (subdir_root \o <<"e-1", "Cargo.toml">> :> Node("cargo", "e")),
             {Ask("d", "meson", NoCargo), Ask("e", "cargo", NoCargo),
              Ask("e", "cargo", CargoDict("e" :> [subdir |-> subdir_root \o <<"e-1">>, path |-> ""]))})

\* redirect files of the main project that point at the wrap files of
\* subproject a: under the name of the target and under another name, for a
\* target that leaves its directory to default and one that declares it
S_redirect ==
    Scenario((WrapPath(sub_root, "b") :> Wrap("git", GitHead, <<>>))
             @@ (WrapPath(sub_root, "d") :>
                 Wrap("git", GitHead @@ [directory |-> "dd", method |-> "cmake"], <<>>))
             @@ (WrapPath(subdir_root, "b") :> Node("wrap", RedirectText(WrapPath(sub_root, "b"))))
             @@ (WrapPath(subdir_root, "c") :> Node("wrap", RedirectText(WrapPath(sub_root, "b"))))
             @@ (WrapPath(subdir_root, "d") :> Node("wrap", RedirectText(WrapPath(sub_root, "d"))))
             @@ (WrapPath(subdir_root, "e") :> Node("wrap", RedirectText(WrapPath(sub_root, "d"))))
             @@ Dirs({subdir_root \o <<"a">>, sub_root, sub_root \o <<"dd">>})
             @@ (sub_root \o <<"dd", "CMakeLists.txt">> :> Blob("project")),
             {Ask(n, "meson", NoCargo) : n \in {"b", "c", "d", "e"}})

\* no wrap files; the registry snapshot lists d and not z; downloads are
\* permitted in the first and not in the second
S_absent ==
    Scenario((subdir_root \o <<"wrapdb.json">> :> Node("json", <<Member("d", [versions |-> <<"1.0-1">>])>>)),
             {Ask("d", "meson", NoCargo), Ask("z", "meson", NoCargo)})
S_nodownload == [S_absent EXCEPT !.cfg.wrap_mode = "nodownload"]

\* a git wrap of a Cargo project, asked for with an empty dictionary of
\* manifests
S_cargo ==
    Scenario((WrapPath(subdir_root, "b") :>
                 Wrap("git", [url |-> "https://ex.com/cargo/b.git", revision |-> "HEAD"], <<>>)),
             {Ask("b", "cargo", CargoDict(EmptyMap))})

\* a git wrap of a repository that holds no build file of any method
S_nobuild ==
    Scenario((WrapPath(subdir_root, "b") :>
                 Wrap("git", [url |-> "https://ex.com/nobuild/b.git", revision |-> "HEAD"], <<>>)),
             {Ask("b", "meson", NoCargo), Ask("b", "cmake", NoCargo),
              Ask("b", "cargo", CargoDict(EmptyMap))})

\* subproject a keeps its wrap files in a/deps
S_deps ==
    Scenario((WrapPath(deps_root, "c") :> Wrap("git", GitHead, <<>>))
             @@ Dirs({subdir_root \o <<"a">>, deps_root}),
             {Ask("c", "meson", NoCargo)})

\* subproject a ships its own b.wrap, which provides a dependency that the
\* main project's b.wrap does not
S_shadow ==
    [Scenario((WrapPath(subdir_root, "b") :> Wrap("git", GitHead, <<>>))
              @@ (WrapPath(sub_root, "b") :> Wrap("git", GitHead, <<Item("bar", "bar_dep")>>))
              @@ Dirs({subdir_root \o <<"a">>, sub_root}),
              {Ask("zz", "meson", NoCargo)})
     EXCEPT !.cfg.dep_queries = {"bar", "b"}]

\* the directory of b is there without a root file; the wrap file of b names
\* a shipped archive, a patch directory and a diff file
S_present ==
    Scenario((WrapPath(subdir_root, "b") :>
                 Wrap("file", [source_filename |-> "src-1.0.tgz",
                               patch_directory |-> "b",
                               diff_files |-> << <<"fix.diff">> >>], <<>>))
             @@ Dirs({subdir_root \o <<"packagefiles">>, subdir_root \o <<"packagefiles", "b">>,
                      subdir_root \o <<"b">>})
             @@ (subdir_root \o <<"b", "README">> :> Blob("text"))
             @@ (subdir_root \o <<"packagefiles", "src-1.0.tgz">> :> Blob("src-1.0"))
             @@ (subdir_root \o <<"packagefiles", "b", "meson.build">> :> Blob("project"))
             @@ (subdir_root \o <<"packagefiles", "fix.diff">> :> Blob("diff")),
             {Ask("b", "meson", NoCargo)})

\* the cache holds the source archive of b already, with the declared body
\* or another; the wrap file writes the digest in upper case
CachedBodies == {"src-1.0", "junk"}
S_cached(body) ==
    Scenario((WrapPath(subdir_root, "b") :>
                 Wrap("file", [source_url |-> "https://ex.com/src-1.0.tgz",
                               source_filename |-> "src-1.0.tgz",
                               source_hash |-> "H(SRC-1.0)"], <<>>))
             @@ Dirs({cachedir})
             @@ (cachedir \o <<"src-1.0.tgz">> :> Blob(body)),
             {Ask("b", "meson", NoCargo)})

\* the three ways of asking for b, and a wrap file of b with or without a
\* method key and with or without method = cargo in its [cargo] section
AskEachMethod ==
    {Ask("b", "meson", NoCargo), Ask("b", "cmake", NoCargo), Ask("b", "cargo", CargoDict(EmptyMap))}
DeclaredMethods == {NoneV, "meson", "cmake", "cargo"}
MethodWrap(declared, force) ==
    Node("wrap", WrapText(Section("git"),
                          IF declared = NoneV THEN GitHead ELSE GitHead @@ [method |-> declared],
                          <<>>,
                          IF force THEN [method |-> "cargo"] ELSE EmptyMap))

\* the directory of b holds the root files of meson and cmake and, unless
\* package is None, the Cargo.toml of that package
BuiltDir(dir, package) ==
    Dirs({dir})
    @@ (dir \o <<"meson.build">> :> Blob("project"))
    @@ (dir \o <<"CMakeLists.txt">> :> Blob("project"))
    @@ (IF package # NoneV THEN (dir \o <<"Cargo.toml">> :> Node("cargo", package)) ELSE EmptyMap)
S_method(declared, force, package) ==
    Scenario((WrapPath(subdir_root, "b") :> MethodWrap(declared, force))
             @@ BuiltDir(subdir_root \o <<"b">>, package),
             AskEachMethod)

\* the same behind a redirect file, and a directory of b without a wrap
\* file, asked for without and with the manifest of b in cargo_projects
S_method_redirect(force) ==
    Scenario((WrapPath(sub_root, "b") :> MethodWrap(NoneV, force))
             @@ (WrapPath(subdir_root, "b") :> Node("wrap", RedirectText(WrapPath(sub_root, "b"))))
             @@ Dirs({subdir_root \o <<"a">>, sub_root})
             @@ BuiltDir(subdir_root \o <<"b">>, "other"),
             AskEachMethod)
S_bare ==
    Scenario(BuiltDir(subdir_root \o <<"b">>, "b"),
             {Ask("b", "cargo", CargoDict(EmptyMap)),
              Ask("b", "cargo", CargoDict("b" :> [subdir |-> subdir_root \o <<"b">>, path |-> ""]))})

\* the wrap file of b and its directory with a hash file: that of the wrap
\* file as update_hash_cache writes it, the same without the end of line,
\* with white space before it, that of an older wrap file, an empty file
HashTexts ==
    {<<MethodWrap(NoneV, FALSE).v, Newline>>, <<Newline, MethodWrap(NoneV, FALSE).v>>,
     <<MethodWrap(NoneV, FALSE).v>>, <<MethodWrap("cmake", FALSE).v, Newline>>, <<>>}
S_hash(text) ==
    Scenario((WrapPath(subdir_root, "b") :> MethodWrap(NoneV, FALSE))
             @@ BuiltDir(subdir_root \o <<"b">>, NoneV)
             @@ (subdir_root \o <<"b", ".meson-subproject-wrap-hash.txt">> :> Node("hash", text)),
             {Ask("b", "meson", NoCargo), Ask("b", "cmake", NoCargo)})

\* b is reached through a redirect file and its directory holds a hash file
\* that an earlier run wrote when the wrap file redirected to had the text
\* then: the hash of the redirect file if that run went through it, the hash
\* of the text then if it went by the wrap file itself (merge_wraps); the
\* wrap file has its present text MethodWrap(None, FALSE)
Drifts ==
    {[text |-> <<RedirectText(WrapPath(sub_root, "b")), Newline>>, then |-> MethodWrap("cmake", FALSE).v],
     [text |-> <<MethodWrap("cmake", FALSE).v, Newline>>, then |-> MethodWrap("cmake", FALSE).v],
     [text |-> <<RedirectText(WrapPath(sub_root, "b")), Newline>>, then |-> MethodWrap(NoneV, FALSE).v],
     [text |-> <<MethodWrap(NoneV, FALSE).v, Newline>>, then |-> MethodWrap(NoneV, FALSE).v]}
S_drift(d) ==
    [Scenario((WrapPath(sub_root, "b") :> MethodWrap(NoneV, FALSE))
              @@ (WrapPath(subdir_root, "b") :> Node("wrap", RedirectText(WrapPath(sub_root, "b"))))
              @@ Dirs({subdir_root \o <<"a">>, sub_root})
              @@ BuiltDir(subdir_root \o <<"b">>, NoneV)
              @@ (subdir_root \o <<"b", ".meson-subproject-wrap-hash.txt">> :> Node("hash", d.text)),
              {Ask("b", "meson", NoCargo)})
     EXCEPT !.cfg.recorded = [known |-> TRUE, text |-> d.then]]

\* runs with wrap mode nodownload: a shipped source with a patch to download,
\* hg and svn wraps, a git wrap, a cached source, a directory in place
Offline(sc) == [sc EXCEPT !.cfg.wrap_mode = "nodownload"]
OfflineScenarios == {Offline(sc) : sc \in {S_patch, S_hg_svn, S_cargo, S_cached("src-1.0"), S_present}}

\* the filename values of a redirect file subprojects/b.wrap, as path parts:
\* the form a/subprojects/c.wrap with and without the file, a sibling file,
\* an absolute path, "..", another directory than subprojects, another
\* suffix, the empty value and the redirect file itself
RedirectNames ==
    {<<"a", "subprojects", "c.wrap">>, <<"a", "subprojects", "x.wrap">>, <<"c.wrap">>,
     <<"/", "subprojects", "c.wrap">>, <<"..", "subprojects", "c.wrap">>,
     <<"a", "subprojects", "..", "subprojects", "c.wrap">>, <<"a", "other", "c.wrap">>,
     <<"a", "subprojects", "c.txt">>, <<"a", "subprojects", ".wrap">>, <<>>, <<"b.wrap">>}
S_form(v) ==
    Scenario((WrapPath(subdir_root, "b") :>
                 Node("wrap", WrapText(Section("redirect"), [filename |-> v], <<>>, EmptyMap)))
             @@ (WrapPath(subdir_root, "c") :> Wrap("git", GitHead, <<>>))
             @@ (WrapPath(sub_root, "c") :> Wrap("git", GitHead, <<>>))
             @@ (sub_root \o <<"c.txt">> :> Wrap("git", GitHead, <<>>))
             @@ (sub_root \o <<".wrap">> :> Wrap("git", GitHead, <<>>))
             @@ (<<"/", "subprojects", "c.wrap">> :> Wrap("git", GitHead, <<>>))
             @@ Dirs({subdir_root \o <<"a">>, sub_root}),
             {})

\* a wrap file that provides dependencies and a program, a registry snapshot
\* that provides some of the same names and others, and the names asked for
S_provide ==
    [Scenario((WrapPath(subdir_root, "b") :>
                  Wrap("git", GitHead, <<Item("dependency_names", <<"Foo">>), Item("Bar", "bar_dep"),
                                         Item("program_names", <<"Prog">>)>>))
              @@ (subdir_root \o <<"wrapdb.json">> :>
                  Node("json", <<Member("d", [versions |-> <<"1.0-1">>,
                                              dependency_names |-> <<"foo", "zlib">>,
                                              program_names |-> <<"tool", "Prog">>]),
                                 Member("e", [versions |-> <<"1.0-1">>,
                                              dependency_names |-> <<"zlib">>,
                                              program_names |-> <<"tool2">>])>>)),
              {Ask("b", "meson", NoCargo)})
     EXCEPT !.cfg.dep_queries = {"foo", "Foo", "FOO", "bar", "Bar", "zlib", "Zlib", "b", "B", "none"},
            !.cfg.program_queries = {<<"Prog">>, <<"prog">>, <<"tool", "Prog">>, <<"Prog", "tool">>,
                                     <<"none", "tool2">>, <<"none">>, <<>>}]

\* the first section of a wrap file subprojects/b.wrap: a known type, an
\* unknown one, the empty one, another letter case, no "wrap-" at all
SectionNames == {"wrap-git", "wrap-zip", "wrap-", "wrap-Git", "Wrap-git", "provide", "wrap"}
S_section(sec) ==
    Scenario((WrapPath(subdir_root, "b") :> Node("wrap", WrapText(sec, GitHead, <<>>, EmptyMap))),
             {Ask("b", "meson", NoCargo)})

\* the directory key of a wrap file subprojects/b.wrap: names, and paths
\* with a separator in front, in the middle and at the end
DirectoryNames == {"b", "b-1.0", "..", "sub/b", "/b", "b/", "/", "../b"}
S_directory(v) ==
    Scenario((WrapPath(subdir_root, "b") :> Wrap("git", GitHead @@ [directory |-> v], <<>>)),
             {Ask("b", "meson", NoCargo)})

\* malformed wrap files subprojects/b.wrap: text that is no ini file, a file
\* without sections, a redirect section without filename key, diff_files
\* with ".." and with an absolute path
MalformedTexts ==
    {MalformedText,
     WrapText(NoSection, EmptyMap, <<>>, EmptyMap),
     WrapText(Section("redirect"), EmptyMap, <<>>, EmptyMap),
     WrapText(Section("git"), GitHead @@ [diff_files |-> << <<"..", "fix.diff">> >>], <<>>, EmptyMap),
     WrapText(Section("git"), GitHead @@ [diff_files |-> << <<"/", "fix.diff">> >>], <<>>, EmptyMap)}
S_malformed(text) == Scenario((WrapPath(subdir_root, "b") :> Node("wrap", text)), {})

\* wrap files with an https and an http URL of the registry's host, for a
\* Python with and without ssl and with and without allow_insecure
S_insecure(ssl, insecure) ==
    [Scenario((WrapPath(subdir_root, "c") :>
                  Wrap("file", [source_url |-> "https://wrapdb.mesonbuild.com/v2/c_1.0-1/get_patch",
                                source_filename |-> "c-1.0.tgz",
                                source_hash |-> "h(src-1.0)"], <<>>))
              @@ (WrapPath(subdir_root, "d") :>
                  Wrap("file", [source_url |-> "http://wrapdb.mesonbuild.com/v2/d_1.0-1/get_patch",
                                source_filename |-> "d-1.0.tgz",
                                source_hash |-> "h(src-1.0)"], <<>>)),
              {Ask("c", "meson", NoCargo), Ask("d", "meson", NoCargo)})
     EXCEPT !.cfg.has_ssl = ssl, !.cfg.allow_insecure = insecure]

Scenarios ==
    {S_provide, S_conflict, S_twice, S_merge, S_git, S_hg_svn, S_file, S_patch, S_clash, S_hosts, S_wrapdb,
     S_redirect, S_absent, S_nodownload, S_cargo, S_nobuild, S_deps}
    \cup {S_form(v) : v \in RedirectNames}
    \cup {S_section(sec) : sec \in SectionNames}
    \cup {S_directory(v) : v \in DirectoryNames}
    \cup {S_malformed(text) : text \in MalformedTexts}
    \cup {S_insecure(ssl, insecure) : ssl \in BOOLEAN, insecure \in BOOLEAN}
    \cup {S_method(declared, FALSE, NoneV) : declared \in DeclaredMethods}
    \cup {S_method(NoneV, force, package) : force \in BOOLEAN, package \in {"other", "b"}}
    \cup {S_method("cargo", TRUE, "other")}
    \cup {S_method_redirect(force) : force \in BOOLEAN}
    \cup {S_bare, S_shadow, S_present}
    \cup {S_hash(text) : text \in HashTexts}
    \cup {S_cached(body) : body \in CachedBodies}
    \cup OfflineScenarios
    \cup {S_drift(d) : d \in Drifts}

\* what the registry answers to the request for the wrap file of name
Reply(err, text) == [err |-> err, text |-> text]
Replies(name) ==
    {Reply("URLError", MalformedText),
     Reply("", WrapText(Section("git"), GitHead @@ [directory |-> name \o "-1"],
                        IF name = "d" THEN <<Item("dependency_names", <<"foo">>)>> ELSE <<>>,
                        EmptyMap))}

\* what the upstream of a url holds: the files of its tree
File(name, node) == (<<name>> :> node)
Upstream(url) ==
    IF Contains(url, "nobuild") THEN File("README", Blob("readme"))
    ELSE IF Contains(url, "cargo") THEN File("Cargo.toml", Node("cargo", "b"))
    ELSE File("meson.build", Blob("project"))

\* the bodies the server of a url may send: the release, or something else
Served(url) == IF Contains(url, "patch") THEN {"patch-1.0", "junk"} ELSE {"src-1.0", "junk"}

\* what an archive unpacks to, by its body: a tree below the extraction directory
Archive(body) ==
    IF body = "src-1.0"
    THEN [valid |-> TRUE, tree |-> (<<"b">> :> Node("dir", NoneV)) @@ (<<"b", "src.c">> :> Blob("code"))]
    ELSE IF body = "patch-1.0"
    THEN [valid |-> TRUE, tree |-> (<<"b">> :> Node("dir", NoneV))
                                    @@ (<<"b", "meson.build">> :> Blob("project"))]
    ELSE [valid |-> FALSE, tree |-> EmptyMap]

----------------------------------------------------------------------------
(* The Resolver *)

Perms(S) == {s \in [1..Cardinality(S) -> S] : \A i, j \in DOMAIN s : s[i] = s[j] => i = j}

NoRes == [op |-> "none", exc |-> ""]
EmptyRegistry == Registry(EmptyMap, EmptyMap, EmptyMap, EmptyMap, <<>>, "")

Init ==
    /\ \E sc \in Scenarios : fs = sc.fs /\ cfg = sc.cfg
    /\ pc = "new"
    /\ heap = EmptyMap
    /\ wraps = EmptyMap
    /\ provided_deps = EmptyMap
    /\ provided_programs = EmptyMap
    /\ wrapdb = EmptyMap
    /\ wrapdb_provided_deps = EmptyMap
    /\ wrapdb_provided_programs = EmptyMap
    /\ call = [none |-> TRUE]
    /\ dl = [none |-> TRUE]
    /\ events = <<>>
    /\ res = NoRes
    /\ hist = [calls |-> 0, faults |-> 0, once |-> FALSE]
    /\ workers = <<>>

\* the registries of the main resolver, read and written
TheRegistry == Registry(heap, wraps, provided_deps, provided_programs, <<>>, "")
SetRegistry(st) ==
    /\ heap' = st.heap
    /\ wraps' = st.wraps
    /\ provided_deps' = st.deps
    /\ provided_programs' = st.progs

\* a Resolver built on directory root: __post_init__ is load_wraps then
\* load_netrc and load_wrapdb
NewResolver(f, root, files, dirs) == load_wraps(f, root, files, dirs, EmptyRegistry)

SubDirs(f, root) == {p \in Children(f, root) : isdir(f, p)}

\* json.load of an object: its members by name, the last of a name wins
json_load(members) ==
    [n \in {members[i].name : i \in DOMAIN members} |->
        members[CHOOSE i \in DOMAIN members :
                    members[i].name = n /\ \A j \in DOMAIN members : members[j].name = n => j <= i].info]

\* load_wrapdb, lines 375-377: the names of key that the members from i on
\* provide, added to acc in the order of the file
RECURSIVE wrapdb_provided(_, _, _, _)
wrapdb_provided(members, key, i, acc) ==
    IF i > Len(members) THEN acc
    ELSE wrapdb_provided(members, key, i + 1,
             [x \in Range(Get(members[i].info, key, <<>>)) |-> members[i].name] @@ acc)

\* load_wrapdb: members is what wrapdb.json holds, <<>> when there is no
\* such file or load_wraps raised
load_wrapdb(members) ==
    /\ wrapdb' = json_load(members)
    /\ wrapdb_provided_deps' = wrapdb_provided(members, "dependency_names", 1, EmptyMap)
    /\ wrapdb_provided_programs' = wrapdb_provided(members, "program_names", 1, EmptyMap)

\* Resolver.__post_init__ of the main project's resolver: st is what
\* load_wraps leaves, then load_wrapdb reads wrapdb.json
PostInitWith(st) ==
    /\ SetRegistry(st)
    /\ events' = st.log
    /\ res' = [op |-> "init", exc |-> st.exc]
    /\ pc' = IF st.exc = "" THEN "idle" ELSE "failed"
    /\ load_wrapdb(IF st.exc = "" /\ exists(fs, subdir_root \o <<"wrapdb.json">>)
                   THEN fs[subdir_root \o <<"wrapdb.json">>].v ELSE <<>>)

PostInit ==
    /\ pc = "new"
    /\ \E files \in Perms(WrapFiles(fs, subdir_root)), dirs \in Perms(SubDirs(fs, subdir_root)) :
        PostInitWith(NewResolver(fs, subdir_root, files, dirs))
    /\ UNCHANGED <<fs, fixed, call, dl, hist>>

\* the names that two registries give to different descriptors
Shadowed(deps, progs, other) ==
    {n \in DOMAIN other.deps \cap DOMAIN deps : other.deps[n] # deps[n]}
    \cup {n \in DOMAIN other.progs \cap DOMAIN progs : other.progs[n] # progs[n]}

\* The interpreter of subproject a builds a Resolver on a/subprojects and the
\* main resolver merges it: merge_wraps(other)
MergeWrapsOf(other) ==
    /\ other.exc = ""
    /\ SetRegistry(merge_wraps(TheRegistry, other))
    /\ events' = <<[k |-> "merge_wraps",
                    shadowed |-> Shadowed(provided_deps, provided_programs, other)]>>
    /\ res' = [op |-> "merge_wraps", exc |-> ""]

MergeWraps ==
    /\ pc = "idle"
    /\ \E root \in {r \in SubRoots : isdir(fs, r)} :
         \E files \in Perms(WrapFiles(fs, root)), dirs \in Perms(SubDirs(fs, root)) :
            MergeWrapsOf(NewResolver(fs, root, files, dirs))
    /\ UNCHANGED <<fs, fixed, pc, index, call, dl, hist>>

\* find_dep_provider, lines 408-413, for the name as looked up
dep_provider(name, deps, hp, wdeps) ==
    IF name \in DOMAIN deps
    THEN <<hp[deps[name]].name, Get(hp[deps[name]].provided_deps, name, NoneV)>>
    ELSE <<Get(wdeps, name, NoneV), NoneV>>

\* the lookup of the name as given
find_dep_provider_exact(packagename, deps, hp, wdeps) == dep_provider(packagename, deps, hp, wdeps)

\* find_dep_provider(packagename): the pair it returns
find_dep_provider(packagename, deps, hp, wdeps) == dep_provider(Lower(packagename), deps, hp, wdeps)

\* get_varname(subp_name, depname): the variable that the descriptor wraps
\* holds under subp_name gives to depname
get_varname(subp_name, depname, ws, hp) ==
    IF subp_name \in DOMAIN ws THEN Get(hp[ws[subp_name]].provided_deps, depname, NoneV)
    ELSE NoneV

\* all names are looked up in the local registrations, then all in the registry
RECURSIVE find_program_provider_local_first(_, _, _, _, _)
find_program_provider_local_first(names, i, progs, hp, wprogs) ==
    IF \E j \in i..Len(names) : names[j] \in DOMAIN progs
    THEN hp[progs[names[CHOOSE j \in i..Len(names) :
                           /\ names[j] \in DOMAIN progs
                           /\ \A m \in i..(j - 1) : names[m] \notin DOMAIN progs]]].name
    ELSE IF \E j \in i..Len(names) : names[j] \in DOMAIN wprogs
    THEN wprogs[names[CHOOSE j \in i..Len(names) :
                          /\ names[j] \in DOMAIN wprogs
                          /\ \A m \in i..(j - 1) : names[m] \notin DOMAIN wprogs]]
    ELSE NoneV

\* find_program_provider(names) from the i-th name on
RECURSIVE find_program_provider(_, _, _, _, _)
find_program_provider(names, i, progs, hp, wprogs) ==
    IF i > Len(names) THEN NoneV
    ELSE IF names[i] \in DOMAIN progs THEN hp[progs[names[i]]].name
    ELSE IF Get(wprogs, names[i], "") # "" THEN wprogs[names[i]]
    ELSE find_program_provider(names, i + 1, progs, hp, wprogs)

\* the interpreter asks for the provider of a dependency or of a program
Found(op, args, ret) ==
    /\ res' = [op |-> op, exc |-> "", args |-> args, ret |-> ret]
    /\ events' = <<>>
    /\ UNCHANGED <<fs, fixed, pc, heap, wraps, provided_deps, provided_programs, index, call, dl, hist>>

FindDepProvider ==
    /\ pc = "idle"
    /\ \E n \in cfg.dep_queries :
          Found("find_dep_provider", n, find_dep_provider(n, provided_deps, heap, wrapdb_provided_deps))

FindProgramProvider ==
    /\ pc = "idle"
    /\ \E names \in cfg.program_queries :
          Found("find_program_provider", names,
                find_program_provider(names, 1, provided_programs, heap, wrapdb_provided_programs))

----------------------------------------------------------------------------
(* resolve, lines 441-513: lookup, target directory, root file, fast path *)

\* load_all_manifests(dir): the manifests of the directories of dir that hold
\* a Cargo.toml with a package section, by package name
load_all_manifests(f, dir) ==
    LET ps == {p \in SubDirs(f, dir) :
                  /\ exists(f, p \o <<"Cargo.toml">>)
                  /\ f[p \o <<"Cargo.toml">>].v # NoneV}
    IN  [n \in {f[p \o <<"Cargo.toml">>].v : p \in ps} |->
            [subdir |-> CHOOSE p \in ps : f[p \o <<"Cargo.toml">>].v = n, path |-> ""]]

\* What the network does with one request: "URLError" (no connection),
\* "SSLError" (a URLError whose reason is a failed certificate check),
\* "OSError" (the connection breaks while the response is read), or the body
\* that arrives.  A request noted in the log: the channel, the scheme, the host.
NetFailures == {"URLError", "SSLError", "OSError"}
Request(via, scheme, host, o) ==
    [k |-> "net", via |-> via, scheme |-> scheme, host |-> host, ok |-> o \notin NetFailures]

\* the outcome of a lookup: the exception raised, the descriptor found (<<>>
\* for None), the registries, the files and the requests made
Lookup(exc, wrap, st, f, ev) == [exc |-> exc, wrap |-> wrap, st |-> st, fs |-> f, ev |-> ev]

\* get_from_wrapdb, lines 391-394: the descriptor of the file written; it is
\* entered in wraps before add_wrap runs
wrapdb_wrap(name, fname, pd, st, f, ev) ==
    IF pd.exc # "" THEN Lookup(pd.exc, <<>>, st, f, ev)
    ELSE Lookup(add_wrap(pd.d, st.deps, st.progs).exc, fname,
                AddWrap(pd.d, [st EXCEPT !.heap = (fname :> pd.d) @@ st.heap,
                                         !.wraps = (name :> fname) @@ st.wraps]),
                f, ev)

\* the wrap file is fetched whatever the wrap mode
get_from_wrapdb_any_mode(name, reply, db, mode, st, f) ==
    IF name \notin DOMAIN db THEN Lookup("", <<>>, st, f, <<>>)
    ELSE IF reply.err # ""
    THEN Lookup(reply.err, <<>>, st, f, <<Request("urlopen", "https", "wrapdb.mesonbuild.com", reply.err)>>)
    ELSE wrapdb_wrap(name, WrapPath(subdir_root, name),
                     PackageDefinition(WrapPath(subdir_root, name),
                                       WriteFile(f, WrapPath(subdir_root, name), Node("wrap", reply.text))),
                     st, WriteFile(f, WrapPath(subdir_root, name), Node("wrap", reply.text)),
                     <<Request("urlopen", "https", "wrapdb.mesonbuild.com", reply.err)>>)

\* get_from_wrapdb(subp_name); reply is what the registry answers to the
\* request for the wrap file: the error err, or the text of a wrap file
get_from_wrapdb(name, reply, db, mode, st, f) ==
    IF name \notin DOMAIN db THEN Lookup("", <<>>, st, f, <<>>)
    ELSE IF mode = "nodownload" THEN Lookup("WrapException", <<>>, st, f, <<>>)
    ELSE IF reply.err # ""
    THEN Lookup(reply.err, <<>>, st, f, <<Request("urlopen", "https", "wrapdb.mesonbuild.com", reply.err)>>)
    ELSE wrapdb_wrap(name, WrapPath(subdir_root, name),
                     PackageDefinition(WrapPath(subdir_root, name),
                                       WriteFile(f, WrapPath(subdir_root, name), Node("wrap", reply.text))),
                     st, WriteFile(f, WrapPath(subdir_root, name), Node("wrap", reply.text)),
                     <<Request("urlopen", "https", "wrapdb.mesonbuild.com", reply.err)>>)

\* the text of the file is compared as it is read
validate_unstripped(w, dir, f) ==
    LET hashfile == dir \o <<".meson-subproject-wrap-hash.txt">>
    IN  IF w.has_wrap /\ isfile(f, hashfile) /\ f[hashfile].v # w.wrapfile_hash
        THEN <<[k |-> "warning", what |-> "wrap file changed"]>>
        ELSE <<>>

\* validate: the hash-drift check of the fast path; the warnings it logs
validate(w, dir, f) ==
    LET hashfile == dir \o <<".meson-subproject-wrap-hash.txt">>
    IN  IF w.has_wrap /\ isfile(f, hashfile) /\ strip(f[hashfile].v) # w.wrapfile_hash
        THEN <<[k |-> "warning", what |-> "wrap file changed"]>>
        ELSE <<>>

\* line 511: the expected root file is there
RootFileExists(f, buildfile) == exists(f, buildfile)

\* the target directory looked for next to the file the descriptor was
\* constructed from, not next to the file it was redirected to
TargetDirOfOriginal(w, f) ==
    LET near == dirname(w.original_filename) \o <<w.directory>>
    IN  IF ~w.has_wrap THEN w.filename
        ELSE IF exists(f, near) THEN near
        ELSE subdir_root \o <<w.directory>>

\* lines 467-491: the target directory of descriptor w, and the redirect
\* file written when w does not come from the main project
TargetDir(w, f) ==
    LET near == dirname(w.filename) \o <<w.directory>>
    IN  IF ~w.has_wrap THEN w.filename
        ELSE IF exists(f, near) THEN near
        ELSE subdir_root \o <<w.directory>>

WriteStub(w, f) ==
    LET main_fname == subdir_root \o <<w.basename>>
    IN  IF w.has_wrap /\ w.filename # main_fname
        THEN WriteFile(f, main_fname, Node("wrap", RedirectText(w.filename)))
        ELSE f

\* lines 493-508: the root build file and the method after the cargo switch.
\* has_w: self.wrap is a descriptor (not None)
RootFile(method, dir, has_w, w, f) ==
    IF method = "meson" THEN [exc |-> "", method |-> method, file |-> dir \o <<"meson.build">>]
    ELSE IF method = "cmake" THEN [exc |-> "", method |-> method, file |-> dir \o <<"CMakeLists.txt">>]
    ELSE IF method = "cargo"
    THEN IF exists(f, dir \o <<"meson.build">>)
         THEN IF ~has_w \/ ~w.has_cargo_values
              THEN [exc |-> "AttributeError", method |-> method, file |-> <<>>]
              ELSE IF Get(w.cargo_values, "method", NoneV) # "cargo"
              THEN [exc |-> "", method |-> "meson", file |-> dir \o <<"meson.build">>]
              ELSE [exc |-> "", method |-> method, file |-> dir \o <<"Cargo.toml">>]
         ELSE [exc |-> "", method |-> method, file |-> dir \o <<"Cargo.toml">>]
    ELSE [exc |-> "WrapException", method |-> method, file |-> <<>>]

\* what self.wrap is read as when it is None
NoDesc == [has_wrap |-> FALSE, has_cargo_values |-> FALSE, directory |-> NoneV]
NoCall == [none |-> TRUE]

\* resolve up to line 513 ends in a HeadResult.  done: the call is over (it
\* raised exc, or it returned ret from the fast path); otherwise c holds what
\* the rest of the call reads.
HeadResult(done, exc, ret, st, f, ev, c) ==
    [done |-> done, exc |-> exc, ret |-> ret, st |-> st, fs |-> f, ev |-> ev, c |-> c]

\* lines 493-513: the root file rf of directory dir, and the fast path; the
\* call keeps in found whether dir was there when it was entered
resolve_root(name, l, wref, w, dir, existing, rf, st, f, ev) ==
    IF rf.exc # "" THEN HeadResult(TRUE, rf.exc, <<>>, st, f, ev, NoCall)
    ELSE IF RootFileExists(f, rf.file)
    THEN HeadResult(TRUE, "", <<relpath(dir, source_dir), rf.method>>, st, f,
                    ev \o validate(w, dir, f), NoCall)
    ELSE HeadResult(FALSE, "", <<>>, st, f, ev,
                    [packagename |-> name, method |-> rf.method, cargo |-> l.cargo, wrap |-> wref,
                     directory |-> w.directory, dirname |-> dir, existing |-> existing,
                     buildfile |-> rf.file, rel_path |-> relpath(dir, source_dir), path |-> <<>>,
                     found |-> exists(f, dir)])

\* lines 465-491: the directory of descriptor w, read in files f0; f holds
\* the redirect file too
resolve_dir(name, l, wref, w, dir, st, f, ev) ==
    resolve_root(name, l, wref, w, dir, FALSE, RootFile(l.method, dir, TRUE, w, f), st, f, ev)

\* lines 459-465: g is what the lookup in the registry gave
resolve_wrap(name, l, g) ==
    IF g.exc # "" THEN HeadResult(TRUE, g.exc, <<>>, g.st, g.fs, g.ev, NoCall)
    ELSE IF g.wrap = <<>> THEN HeadResult(TRUE, "WrapNotFoundException", <<>>, g.st, g.fs, g.ev, NoCall)
    ELSE resolve_dir(name, l, g.wrap, g.st.heap[g.wrap], TargetDir(g.st.heap[g.wrap], g.fs),
                     g.st, WriteStub(g.st.heap[g.wrap], g.fs), g.ev)

\* lines 450-461: l holds the descriptor of wraps, the method and the manifests
resolve_lookup(name, l, reply, db, mode, st, f) ==
    IF l.exc # "" THEN HeadResult(TRUE, l.exc, <<>>, st, f, <<>>, NoCall)
    ELSE IF l.method = "cargo" /\ name \in DOMAIN l.cargo.map
    THEN resolve_root(name, l, <<>>, NoDesc, l.cargo.map[name].subdir, TRUE,
                      RootFile(l.method, l.cargo.map[name].subdir, FALSE, NoDesc, f), st, f, <<>>)
    ELSE IF l.wrap # <<>> THEN resolve_wrap(name, l, Lookup("", l.wrap, st, f, <<>>))
    ELSE resolve_wrap(name, l, get_from_wrapdb(name, reply, db, mode, st, f))

\* the method of the caller is kept whatever the wrap file declares
resolve_method_of_caller(w, wref, method, cargo, f) ==
    IF ~w.has_wrap THEN [exc |-> "", wrap |-> wref, method |-> method, cargo |-> cargo]
    ELSE IF method = "cargo" /\ cargo.map = EmptyMap
    THEN IF cargo.none
         THEN [exc |-> "TypeError", wrap |-> wref, method |-> "cargo", cargo |-> cargo]
         ELSE [exc |-> "", wrap |-> wref, method |-> "cargo",
               cargo |-> CargoDict(load_all_manifests(f, dirname(w.filename)))]
    ELSE [exc |-> "", wrap |-> wref, method |-> method, cargo |-> cargo]

\* lines 444-448: the descriptor of wraps, the method it sets and the manifests
resolve_method(w, wref, method, cargo, f) ==
    IF ~w.has_wrap THEN [exc |-> "", wrap |-> wref, method |-> method, cargo |-> cargo]
    ELSE IF Get(w.values, "method", method) = "cargo" /\ cargo.map = EmptyMap
    THEN IF cargo.none
         THEN [exc |-> "TypeError", wrap |-> wref, method |-> "cargo", cargo |-> cargo]
         ELSE [exc |-> "", wrap |-> wref, method |-> "cargo",
               cargo |-> CargoDict(load_all_manifests(f, dirname(w.filename)))]
    ELSE [exc |-> "", wrap |-> wref, method |-> Get(w.values, "method", method), cargo |-> cargo]

\* resolve, lines 441-513
ResolveHead(name, method, cargo, reply, db, mode, st, f) ==
    IF name \in DOMAIN st.wraps
    THEN resolve_lookup(name, resolve_method(st.heap[st.wraps[name]], st.wraps[name], method, cargo, f),
                        reply, db, mode, st, f)
    ELSE resolve_lookup(name, resolve_method(NoDesc, <<>>, method, cargo, f), reply, db, mode, st, f)

\* line 546: the value the enclosing calls return, innermost first
RECURSIVE Unwind(_, _)
Unwind(ret, outer) ==
    IF outer = <<>> THEN ret
    ELSE Unwind(<<ret, outer[Len(outer)]>>, SubSeq(outer, 1, Len(outer) - 1))

\* what the lines up to 513 settle of the value resolve returns: the
\* exception raised, or the relative path and the method
NoSummary == [exc |-> "", path |-> <<>>, method |-> ""]
Summary(h) ==
    IF h.exc # "" THEN [exc |-> h.exc, path |-> <<>>, method |-> ""]
    ELSE IF h.done THEN [exc |-> "", path |-> h.ret[1], method |-> h.ret[2]]
    ELSE [exc |-> "", path |-> h.c.rel_path, method |-> h.c.method]

\* The registry in which the descriptor redirected to w.filename is replaced
\* by the one constructed from that file itself
DirectRegistry(pd, st) ==
    Registry((pd.d.original_filename :> pd.d) @@ st.heap,
             (pd.d.name :> pd.d.original_filename) @@ st.wraps, st.deps, st.progs, <<>>, pd.exc)

\* resolve up to line 513 for the wrap file that the descriptor of name was
\* redirected to, looked up under its own name
DirectHead(pd, rq) ==
    IF pd.exc # "" THEN [exc |-> pd.exc, path |-> <<>>, method |-> ""]
    ELSE Summary(ResolveHead(pd.d.name, rq.method, rq.cargo, Reply("URLError", MalformedText),
                             wrapdb, cfg.wrap_mode, DirectRegistry(pd, TheRegistry), fs))

\* with the call for a redirected descriptor goes the result of resolving
\* its target directly, in the same files
Direct(rq) ==
    IF rq.name \in DOMAIN wraps /\ heap[wraps[rq.name]].redirected
    THEN [redirected |-> TRUE,
          s |-> DirectHead(PackageDefinition(heap[wraps[rq.name]].filename, fs), rq)]
    ELSE [redirected |-> FALSE, s |-> NoSummary]

\* resolve went up to line 513 with result h; k holds the arguments of the
\* outermost call and the methods of the enclosing calls, ev0 the events so far
Entered(h, k, ev0) ==
    /\ fs' = h.fs
    /\ SetRegistry(h.st)
    /\ events' = ev0 \o h.st.log \o h.ev
    /\ IF h.done
       THEN /\ pc' = "idle"
            /\ res' = [op |-> "resolve", exc |-> h.exc,
                       ret |-> IF h.exc = "" THEN Unwind(h.ret, k.outer) ELSE <<>>,
                       args |-> k.args, prev |-> k.prev, at |-> "head", dirname |-> <<>>,
                       head |-> IF k.outer = <<>> THEN Summary(h) ELSE k.head,
                       direct |-> k.direct]
            /\ call' = NoCall
       ELSE /\ pc' = "submodule"
            /\ res' = res
            /\ call' = h.c @@ [k EXCEPT !.head = IF k.outer = <<>> THEN Summary(h) ELSE k.head]

\* resolve(name, method, cargo) is entered
Enter(name, method, cargo, k, ev0) ==
    \E reply \in Replies(name) :
        Entered(ResolveHead(name, method, cargo, reply, wrapdb, cfg.wrap_mode, TheRegistry, fs), k, ev0)

\* what a call keeps of the operation before it: whether that was a resolve
\* call that returned, and its arguments
Prev(r) ==
    IF r.op = "resolve" THEN [ok |-> r.exc = "", args |-> r.args]
    ELSE [ok |-> FALSE, args |-> Ask("", "", NoCargo)]

\* the interpreter calls resolve
ResolveStart ==
    /\ pc = "idle"
    /\ hist.calls < MaxCalls
    /\ \E rq \in cfg.requests :
        Enter(rq.name, rq.method, rq.cargo,
              [args |-> rq, outer |-> <<>>, prev |-> Prev(res), head |-> NoSummary,
               direct |-> Direct(rq)], <<>>)
    /\ hist' = [hist EXCEPT !.calls = @ + 1]
    /\ UNCHANGED <<fixed, index, dl>>

\* the call raises exc at stage at, or returns ret
Over(exc, ret, at) ==
    /\ pc' = "idle"
    /\ res' = [op |-> "resolve", exc |-> exc,
               ret |-> IF exc = "" THEN Unwind(ret, call.outer) ELSE <<>>,
               args |-> call.args, prev |-> call.prev, at |-> at, dirname |-> call.dirname,
               head |-> call.head, direct |-> call.direct]
    /\ call' = NoCall
    /\ dl' = NoCall

----------------------------------------------------------------------------
(* The version-control transports *)

\* one command: the tool, the subcommand, its revision or branch argument,
\* whether a failure raises (and what), and what success does to the tree:
\* "clone" creates the directory with the upstream files, "init" creates it
\* empty, "populate" checks the upstream files out into it; "no url" is a
\* command that raises before it runs
Cmd(tool, sub, arg, check, exc, effect) ==
    [tool |-> tool, sub |-> sub, arg |-> arg, check |-> check, exc |-> exc, effect |-> effect]

\* the files of directory dir after a checkout of tree
Populate(f, dir, tree) == [p \in {dir \o q : q \in DOMAIN tree} |-> tree[CHOOSE q \in DOMAIN tree : dir \o q = p]] @@ f

\* the commands of script run in order from i on; those whose index is in
\* fail exit with an error
RECURSIVE RunScript(_, _, _, _, _, _, _)
RunScript(script, i, fail, f, dir, tree, ev) ==
    IF i > Len(script) THEN [exc |-> "", fs |-> f, ev |-> ev]
    ELSE
        LET c == script[i]
            ok == i \notin fail
            e == [k |-> "proc", tool |-> c.tool, sub |-> c.sub, arg |-> c.arg, ok |-> ok]
            f1 == IF ~ok \/ c.effect = "none" THEN f
                  ELSE IF c.effect = "init" THEN WriteFile(f, dir, Node("dir", NoneV))
                  ELSE Populate(WriteFile(f, dir, Node("dir", NoneV)), dir, tree)
        IN  IF c.effect = "no url" THEN [exc |-> c.exc, fs |-> f, ev |-> ev]
            ELSE IF ~ok /\ c.check THEN [exc |-> c.exc, fs |-> f, ev |-> Append(ev, e)]
            ELSE RunScript(script, i + 1, fail, f1, dir, tree, Append(ev, e))

is_git_full_commit_id(revno) ==
    /\ Len(revno) \in {40, 64}
    /\ \A i \in 1..Len(revno) : Contains("0123456789AaBbCcDdEeFf", SubSeq(revno, i, i))

\* the revision is spelled HEAD, in capitals only
is_head_exact(revno) == revno = "HEAD"

\* revno.lower() == 'head'
is_head(revno) == Lower(revno) = "head"

\* get_git: the commands it runs; co_ok is whether the first checkout of the
\* non-shallow case succeeds.  A command that is given the url raises before
\* it runs when the wrap file has none.
get_git(w, co_ok) ==
    LET revno == w.values["revision"]
        depth == Get(w.values, "depth", "")
        is_shallow == depth # ""
        git(sub, arg, check, effect) ==
            Cmd("git", sub, arg, check, "WrapException",
                IF sub \in {"clone", "remote add"} /\ "url" \notin DOMAIN w.values
                THEN "no url" ELSE effect)
        checkout(check, effect) == git("checkout", revno, check, effect)
        tail == (IF Lower(Get(w.values, "clone-recursive", "")) = "true"
                 THEN <<git("submodule update", depth, TRUE, "none")>> ELSE <<>>)
                \o (IF Get(w.values, "push-url", "") # ""
                    THEN <<git("remote set-url", "", TRUE, "none")>> ELSE <<>>)
    IN  IF is_shallow /\ is_git_full_commit_id(revno)
        THEN <<git("init", "", TRUE, "init"), git("remote add", "", TRUE, "none"),
               git("fetch", revno, TRUE, "none"), checkout(TRUE, "populate")>> \o tail
        ELSE IF ~is_shallow
        THEN <<git("clone", "", TRUE, "clone")>>
             \o (IF ~is_head(revno)
                 THEN <<checkout(FALSE, "none")>>
                      \o (IF co_ok THEN <<>>
                          ELSE <<git("fetch", revno, TRUE,
                                     IF "url" \in DOMAIN w.values THEN "none" ELSE "no url"),
                                 checkout(TRUE, "none")>>)
                 ELSE <<>>)
             \o tail
        ELSE <<git("clone", IF ~is_head(revno) THEN revno ELSE "", TRUE, "clone")>> \o tail

\* get_hg and get_svn: the commands they run
get_hg(w) ==
    <<Cmd("hg", "clone", "", TRUE, "CalledProcessError", "clone")>>
    \o (IF Lower(w.values["revision"]) # "tip"
        THEN <<Cmd("hg", "checkout", w.values["revision"], TRUE, "CalledProcessError", "none")>>
        ELSE <<>>)
get_svn(w) ==
    <<Cmd("svn", "checkout", w.values["revision"], TRUE, "CalledProcessError", "clone")>>

----------------------------------------------------------------------------
(* resolve, lines 516-533: the submodule probe and the choice of transport *)

\* what git answers to the probe: whether rev-parse and submodule status
\* succeed, the first character of the status ("" for no output), and
\* whether submodule update and checkout succeed
SubmoduleAnswers ==
    [repo : {FALSE}, status : {FALSE}, out : {""}, update : {FALSE}, checkout : {FALSE}]
    \cup [repo : {TRUE}, status : {FALSE}, out : {""}, update : {FALSE}, checkout : {FALSE}]
    \cup [repo : {TRUE}, status : {TRUE}, out : {"+", "U", "", "?"}, update : {FALSE},
          checkout : {FALSE}]
    \cup [repo : {TRUE}, status : {TRUE}, out : {"-"}, update : BOOLEAN, checkout : {FALSE}]
    \cup [repo : {TRUE}, status : {TRUE}, out : {" "}, update : BOOLEAN, checkout : BOOLEAN]

\* resolve_git_submodule in which a failed update of a clean submodule is
\* fatal, as it is for one that was not initialized
resolve_git_submodule_checked(f, dir, GIT, o, tree) ==
    LET git(sub, ok) == [k |-> "proc", tool |-> "git", sub |-> sub, arg |-> "", ok |-> ok]
        out(exc, f1, ev) == [exc |-> exc, fs |-> f1, ev |-> ev]
        probe == <<git("rev-parse", o.repo)>>
        status == probe \o <<git("submodule status", o.status)>>
                  \o (IF o.status THEN <<[k |-> "stdout", out |-> o.out]>> ELSE <<>>)
    IN  IF ~GIT \/ ~isdir(f, dir) THEN out("", f, <<>>)
        ELSE IF ~o.repo THEN out("", f, probe)
        ELSE IF ~o.status THEN out("", f, status)
        ELSE IF o.out = "+" THEN out("", f, status \o <<[k |-> "warning", what |-> "submodule out of date"]>>)
        ELSE IF o.out = "U" THEN out("WrapException", f, status)
        ELSE IF o.out = "-"
        THEN IF o.update
             THEN out("", Populate(f, dir, tree),
                      status \o <<[git("submodule update", TRUE) EXCEPT !.arg = "--init"]>>)
             ELSE out("WrapException", f,
                      status \o <<[git("submodule update", FALSE) EXCEPT !.arg = "--init"]>>)
        ELSE IF o.out = " "
        THEN out(IF o.update THEN "" ELSE "WrapException",
                 IF o.update THEN Populate(f, dir, tree) ELSE f,
                 status \o <<git("submodule update", o.update), git("checkout", o.checkout)>>)
        ELSE IF o.out = "" THEN out("", f, status)
        ELSE out("WrapException", f, status)

\* resolve_git_submodule without the branch of line 601: no output is an
\* unknown output
resolve_git_submodule_no_empty(f, dir, GIT, o, tree) ==
    LET git(sub, ok) == [k |-> "proc", tool |-> "git", sub |-> sub, arg |-> "", ok |-> ok]
        out(exc, f1, ev) == [exc |-> exc, fs |-> f1, ev |-> ev]
        probe == <<git("rev-parse", o.repo)>>
        status == probe \o <<git("submodule status", o.status)>>
                  \o (IF o.status THEN <<[k |-> "stdout", out |-> o.out]>> ELSE <<>>)
    IN  IF ~GIT \/ ~isdir(f, dir) THEN out("", f, <<>>)
        ELSE IF ~o.repo THEN out("", f, probe)
        ELSE IF ~o.status THEN out("", f, status)
        ELSE IF o.out = "+" THEN out("", f, status \o <<[k |-> "warning", what |-> "submodule out of date"]>>)
        ELSE IF o.out = "U" THEN out("WrapException", f, status)
        ELSE IF o.out = "-"
        THEN IF o.update
             THEN out("", Populate(f, dir, tree),
                      status \o <<[git("submodule update", TRUE) EXCEPT !.arg = "--init"]>>)
             ELSE out("WrapException", f,
                      status \o <<[git("submodule update", FALSE) EXCEPT !.arg = "--init"]>>)
        ELSE IF o.out = " "
        THEN out("", IF o.update THEN Populate(f, dir, tree) ELSE f,
                 status \o <<git("submodule update", o.update), git("checkout", o.checkout)>>)
        ELSE out("WrapException", f, status)

\* resolve_git_submodule
resolve_git_submodule(f, dir, GIT, o, tree) ==
    LET git(sub, ok) == [k |-> "proc", tool |-> "git", sub |-> sub, arg |-> "", ok |-> ok]
        out(exc, f1, ev) == [exc |-> exc, fs |-> f1, ev |-> ev]
        probe == <<git("rev-parse", o.repo)>>
        status == probe \o <<git("submodule status", o.status)>>
                  \o (IF o.status THEN <<[k |-> "stdout", out |-> o.out]>> ELSE <<>>)
    IN  IF ~GIT \/ ~isdir(f, dir) THEN out("", f, <<>>)
        ELSE IF ~o.repo THEN out("", f, probe)
        ELSE IF ~o.status THEN out("", f, status)
        ELSE IF o.out = "+" THEN out("", f, status \o <<[k |-> "warning", what |-> "submodule out of date"]>>)
        ELSE IF o.out = "U" THEN out("WrapException", f, status)
        ELSE IF o.out = "-"
        THEN IF o.update
             THEN out("", Populate(f, dir, tree),
                      status \o <<[git("submodule update", TRUE) EXCEPT !.arg = "--init"]>>)
             ELSE out("WrapException", f,
                      status \o <<[git("submodule update", FALSE) EXCEPT !.arg = "--init"]>>)
        ELSE IF o.out = " "
        THEN out("", IF o.update THEN Populate(f, dir, tree) ELSE f,
                 status \o <<git("submodule update", o.update), git("checkout", o.checkout)>>)
        ELSE IF o.out = "" THEN out("", f, status)
        ELSE out("WrapException", f, status)

\* the transport runs whether or not the directory is there
ResolveSubmoduleThenTransport ==
    /\ pc = "submodule"
    /\ \E o \in SubmoduleAnswers :
        LET r == resolve_git_submodule(fs, call.dirname, cfg.GIT, o, Upstream("submodule"))
            type == IF call.wrap = <<>> THEN NoneV ELSE heap[call.wrap].type
        IN  /\ fs' = r.fs
            /\ events' = events \o r.ev
            /\ IF r.exc # "" THEN Over(r.exc, <<>>, "submodule")
               ELSE IF call.wrap = <<>> THEN Over("AttributeError", <<>>, "acquire")
               ELSE IF type = "file" THEN pc' = "get_file" /\ UNCHANGED <<call, dl, res>>
               ELSE IF cfg.wrap_mode = "nodownload" THEN Over("WrapException", <<>>, "acquire")
               ELSE IF type \in {"git", "hg", "svn"}
               THEN pc' = "get_" \o type /\ UNCHANGED <<call, dl, res>>
               ELSE Over("WrapException", <<>>, "acquire")
    /\ UNCHANGED <<fixed, heap, wraps, provided_deps, provided_programs, index, hist>>

\* lines 516-533: the probe, then the transport when the directory is missing
ResolveSubmodule ==
    /\ pc = "submodule"
    /\ \E o \in SubmoduleAnswers :
        LET r == resolve_git_submodule(fs, call.dirname, cfg.GIT, o, Upstream("submodule"))
            type == IF call.wrap = <<>> THEN NoneV ELSE heap[call.wrap].type
        IN  /\ fs' = r.fs
            /\ events' = events \o r.ev
            /\ IF r.exc # "" THEN Over(r.exc, <<>>, "submodule")
               ELSE IF exists(r.fs, call.dirname)
               THEN IF ~isdir(r.fs, call.dirname) THEN Over("WrapException", <<>>, "exists")
                    ELSE pc' = "finish" /\ UNCHANGED <<call, dl, res>>
               ELSE IF call.wrap = <<>> THEN Over("AttributeError", <<>>, "acquire")
               ELSE IF type = "file" THEN pc' = "get_file" /\ UNCHANGED <<call, dl, res>>
               ELSE IF cfg.wrap_mode = "nodownload" THEN Over("WrapException", <<>>, "acquire")
               ELSE IF type \in {"git", "hg", "svn"}
               THEN pc' = "get_" \o type /\ UNCHANGED <<call, dl, res>>
               ELSE Over("WrapException", <<>>, "acquire")
    /\ UNCHANGED <<fixed, heap, wraps, provided_deps, provided_programs, index, hist>>

\* a transport ran script with the commands of fail failing
Transport(script, fail, url) ==
    LET r == RunScript(script, 1, fail, fs, call.dirname, Upstream(url), <<>>)
    IN  /\ fs' = r.fs
        /\ events' = events \o r.ev
        /\ IF r.exc # "" THEN Over(r.exc, <<>>, "acquire")
           ELSE pc' = "patch" /\ UNCHANGED <<call, dl, res>>

\* a transport raised before it ran a command
TransportFails(exc) ==
    /\ Over(exc, <<>>, "acquire")
    /\ UNCHANGED <<fs, events>>

GetGit ==
    /\ pc = "get_git"
    /\ LET w == heap[call.wrap]
       IN  IF ~cfg.GIT \/ "revision" \notin DOMAIN w.values
           THEN TransportFails("WrapException")
           ELSE \E co_ok \in BOOLEAN :
                    LET script == get_git(w, co_ok)
                    IN  \E fail \in SUBSET DOMAIN script :
                            /\ \A i \in DOMAIN script : ~script[i].check => (co_ok <=> i \notin fail)
                            /\ Transport(script, fail, Get(w.values, "url", ""))
    /\ UNCHANGED <<fixed, heap, wraps, provided_deps, provided_programs, index, hist>>

GetHg ==
    /\ pc = "get_hg"
    /\ LET w == heap[call.wrap]
       IN  IF "revision" \notin DOMAIN w.values THEN TransportFails("WrapException")
           ELSE IF ~cfg.HG THEN TransportFails("WrapException")
           ELSE IF "url" \notin DOMAIN w.values THEN TransportFails("WrapException")
           ELSE \E fail \in SUBSET DOMAIN get_hg(w) : Transport(get_hg(w), fail, w.values["url"])
    /\ UNCHANGED <<fixed, heap, wraps, provided_deps, provided_programs, index, hist>>

GetSvn ==
    /\ pc = "get_svn"
    /\ LET w == heap[call.wrap]
       IN  IF "revision" \notin DOMAIN w.values THEN TransportFails("WrapException")
           ELSE IF ~cfg.SVN THEN TransportFails("WrapException")
           ELSE IF "url" \notin DOMAIN w.values THEN TransportFails("WrapException")
           ELSE \E fail \in SUBSET DOMAIN get_svn(w) : Transport(get_svn(w), fail, w.values["url"])
    /\ UNCHANGED <<fixed, heap, wraps, provided_deps, provided_programs, index, hist>>

----------------------------------------------------------------------------
(* Downloads: the allow-list, get_data, the retries and the integrity check *)

WHITELIST_SUBDOMAIN == "wrapdb.mesonbuild.com"

\* the index of the first occurrence of p in s, 0 when there is none
Find(s, p) ==
    LET at == {i \in 1..(Len(s) - Len(p) + 1) : SubSeq(s, i, i + Len(p) - 1) = p}
    IN  IF at = {} THEN 0 ELSE CHOOSE i \in at : \A j \in at : i <= j

\* urllib.parse.urlparse: the scheme, the netloc and the hostname (the netloc
\* without user info and port, in lower case)
url_host(hostport, colon) ==
    Lower(IF colon > 0 THEN SubSeq(hostport, 1, colon - 1) ELSE hostport)
url_netloc(scheme, netloc, at) ==
    [scheme |-> scheme, netloc |-> netloc,
     hostname |-> url_host(SubSeq(netloc, at + 1, Len(netloc)),
                           Find(SubSeq(netloc, at + 1, Len(netloc)), ":"))]
url_rest(scheme, rest, ends) ==
    IF ends = {} THEN url_netloc(scheme, rest, Find(rest, "@"))
    ELSE url_netloc(scheme, SubSeq(rest, 1, (CHOOSE e \in ends : \A x \in ends : e <= x) - 1),
                    Find(SubSeq(rest, 1, (CHOOSE e \in ends : \A x \in ends : e <= x) - 1), "@"))
url_scheme(u, i) ==
    IF i = 0 THEN [scheme |-> "", netloc |-> "", hostname |-> ""]
    ELSE url_rest(Lower(SubSeq(u, 1, i - 1)), SubSeq(u, i + 3, Len(u)),
                  {Find(SubSeq(u, i + 3, Len(u)), d) : d \in {"/", "?", "#"}} \ {0})
urlparse(u) == url_scheme(u, Find(u, "://"))

\* the allow-list test of the host, line 74
WhitelistedHost(hostname) == EndsWith(hostname, WHITELIST_SUBDOMAIN)

\* whitelist_wrapdb: the exception it raises, "" when it accepts
whitelist_url(url, has_ssl) ==
    IF url.hostname = "" THEN "WrapException"
    ELSE IF ~WhitelistedHost(url.hostname) THEN "WrapException"
    ELSE IF has_ssl /\ url.scheme # "https" THEN "WrapException"
    ELSE ""
whitelist_wrapdb(urlstr, has_ssl) == whitelist_url(urlparse(urlstr), has_ssl)

\* a response: the exception raised, the body that arrives ("OSError" when
\* the connection breaks while it is read) and the requests sent
Response(exc, body, ev) == [exc |-> exc, body |-> body, ev |-> ev]

\* open_wrapdburl, lines 105-110: the request without TLS
open_nossl(host, o2, ev) ==
    IF o2 \in {"URLError", "SSLError"}
    THEN Response("WrapException", "", Append(ev, Request("open_wrapdburl", "http", host, o2)))
    ELSE Response("", o2, Append(ev, Request("open_wrapdburl", "http", host, o2)))

\* line 103: the warning of a Python without ssl, logged once in a process;
\* c.once tells whether it was logged before
NoSslWarning == [k |-> "warning", what |-> "WrapDB traffic not authenticated"]
WarnOnce(c) == IF c.once THEN <<>> ELSE <<NoSslWarning>>
Warned(c, ev) == [c EXCEPT !.once = @ \/ \E i \in DOMAIN ev : ev[i] = NoSslWarning]

\* a failed certificate check is passed over whatever allow_insecure is
open_wrapdburl_lenient(url, c, o, o2) ==
    IF whitelist_url(url, c.has_ssl) # "" THEN Response("WrapException", "", <<>>)
    ELSE IF c.has_ssl
    THEN IF o = "SSLError"
         THEN open_nossl(url.hostname, o2,
                         <<Request("open_wrapdburl", url.scheme, url.hostname, o),
                           [k |-> "warning", what |-> "Proceeding without authentication"]>>)
         ELSE IF o = "URLError"
         THEN Response("WrapException", "", <<Request("open_wrapdburl", url.scheme, url.hostname, o)>>)
         ELSE Response("", o, <<Request("open_wrapdburl", url.scheme, url.hostname, o)>>)
    ELSE IF ~c.allow_insecure THEN Response("WrapException", "", <<>>)
    ELSE open_nossl(url.hostname, o2, WarnOnce(c))

\* open_wrapdburl, lines 86-103: url is the parsed URL, o and o2 are what the
\* network does with the https and with the http request
open_wrapdburl_url(url, c, o, o2) ==
    IF whitelist_url(url, c.has_ssl) # "" THEN Response("WrapException", "", <<>>)
    ELSE IF c.has_ssl
    THEN IF o = "SSLError"
         THEN IF c.allow_insecure
              THEN open_nossl(url.hostname, o2,
                              <<Request("open_wrapdburl", url.scheme, url.hostname, o),
                                [k |-> "warning", what |-> "Proceeding without authentication"]>>)
              ELSE Response("WrapException", "", <<Request("open_wrapdburl", url.scheme, url.hostname, o)>>)
         ELSE IF o = "URLError"
         THEN Response("WrapException", "", <<Request("open_wrapdburl", url.scheme, url.hostname, o)>>)
         ELSE Response("", o, <<Request("open_wrapdburl", url.scheme, url.hostname, o)>>)
    ELSE IF ~c.allow_insecure THEN Response("WrapException", "", <<>>)
    ELSE open_nossl(url.hostname, o2, WarnOnce(c))

open_wrapdburl(urlstring, c, o, o2) == open_wrapdburl_url(urlparse(urlstring), c, o, o2)

\* hashlib.sha256(...).hexdigest() of a body: one digest per body, written
\* in lower case as the bodies are
sha256(body) == "h(" \o body \o ")"

\* tempfile.NamedTemporaryFile(dir=cachedir, delete=False): a name not in use
TmpName(f) ==
    LET n == CHOOSE n \in 1..(Cardinality(DOMAIN f) + 1) :
                 /\ cachedir \o <<"tmp" \o ToString(n)>> \notin DOMAIN f
                 /\ \A m \in 1..(n - 1) : cachedir \o <<"tmp" \o ToString(m)>> \in DOMAIN f
    IN  cachedir \o <<"tmp" \o ToString(n)>>

\* get_data, lines 740-745: the request that is not for the registry
urlopen(url, o) ==
    IF o \in {"URLError", "SSLError"}
    THEN Response("WrapException", "", <<Request("urlopen", url.scheme, url.hostname, o)>>)
    ELSE Response("", o, <<Request("urlopen", url.scheme, url.hostname, o)>>)

\* get_netrc_credentials(netloc): <<>> for None, or the login (the account
\* when the entry has one) and the password of the entry named netloc
get_netrc_credentials(netloc, netrc) ==
    IF netrc.none \/ netloc \notin DOMAIN netrc.map THEN <<>>
    ELSE <<IF netrc.map[netloc].account # NoneV THEN netrc.map[netloc].account
           ELSE netrc.map[netloc].login,
           netrc.map[netloc].password>>

\* get_data, lines 726-739: the credentials creds put into the request that
\* gave r, as Authorization header (https) or in the netloc of the URL (ftp),
\* or the warning that they are not used
NetrcWarning == [k |-> "warning", what |-> "netrc credentials not used"]
add_credentials(url, creds, r) ==
    IF creds = <<>> \/ Contains(url.netloc, "@") THEN r
    ELSE IF url.scheme \in {"https", "ftp"}
    THEN [r EXCEPT !.ev = <<[k |-> "credentials",
                             how |-> IF url.scheme = "https" THEN "Authorization" ELSE "netloc",
                             scheme |-> url.scheme, netloc |-> url.netloc,
                             login |-> creds[1], password |-> creds[2]]>> \o @]
    ELSE [r EXCEPT !.ev = <<NetrcWarning>> \o @]

\* get_data, lines 746-773: the body of response r is read into tmpfile
read_body(r, tmpfile, f) ==
    [exc |-> IF r.exc = "" /\ r.body = "OSError" THEN "OSError" ELSE r.exc,
     hash |-> sha256(r.body), tmpfile |-> tmpfile, ev |-> r.ev,
     fs |-> WriteFile(f, tmpfile, Node("tmp", IF r.exc = "" /\ r.body # "OSError" THEN r.body ELSE ""))]

\* get_data, lines 719-745, with the parsed URL
get_data_url(urlstring, url, c, o, o2, f) ==
    IF url.hostname # "" /\ WhitelistedHost(url.hostname)
    THEN read_body(open_wrapdburl_url(url, c, o, o2), TmpName(f), f)
    ELSE IF Contains(urlstring, WHITELIST_SUBDOMAIN)
    THEN read_body(Response("WrapException", "", <<>>), TmpName(f), f)
    ELSE read_body(add_credentials(url, get_netrc_credentials(url.netloc, c.netrc), urlopen(url, o)),
                   TmpName(f), f)

\* get_data: one attempt
get_data(urlstring, c, o, o2, f) == get_data_url(urlstring, urlparse(urlstring), c, o, o2, f)

\* any digest passes
HashAny(dhash, expected) == TRUE

\* line 803: the computed digest is the declared one
HashMatches(dhash, expected) == dhash = expected

\* get_data_with_backoff from attempt i on.  The network fails the first
\* orc.n attempts and then does orc.o (orc.o2 on the http channel).  Each
\* call of get_data is logged with the exception it raised ("" for none).
\* other delays
delays_linear == <<1, 2, 3, 4, 5>>

\* line 787
delays == <<1, 2, 4, 8, 16>>
RECURSIVE get_data_with_backoff(_, _, _, _, _, _)
backoff(r, urlstring, c, orc, i, ev) ==
    IF r.exc = "" \/ i > Len(delays)
    THEN [r EXCEPT !.ev = ev \o r.ev \o <<[k |-> "get_data", exc |-> r.exc]>>]
    ELSE get_data_with_backoff(urlstring, Warned(c, r.ev), orc, i + 1, r.fs,
             ev \o r.ev \o <<[k |-> "get_data", exc |-> r.exc],
                             [k |-> "warning", what |-> "failed to download"],
                             [k |-> "sleep", d |-> delays[i]]>>)
get_data_with_backoff(urlstring, c, orc, i, f, ev) ==
    backoff(get_data(urlstring, c, IF i <= orc.n THEN "URLError" ELSE orc.o, orc.o2, f),
            urlstring, c, orc, i, ev)

\* what the network may do during one get_data_with_backoff
Oracles(urlstring, c) ==
    {orc \in [n : 0..Len(delays), o : NetFailures \cup Served(urlstring),
              o2 : {"URLError"} \cup Served(urlstring)] :
        /\ orc.o \in NetFailures \ {"SSLError"} => orc.n = Len(delays)
        /\ ~(c.allow_insecure /\ (orc.o = "SSLError" \/ ~c.has_ssl)) => orc.o2 = "URLError"
        /\ orc.o = "SSLError" => c.allow_insecure \/ orc.n = Len(delays)}

\* the requests the network fails under orc
Faults(orc) == orc.n + (IF orc.o \in NetFailures THEN 1 ELSE 0)

\* an exception leaves resolve at stage at; inside the try of lines 534-539
\* the target directory is removed first
Throw(exc, f, ev, at) ==
    /\ fs' = IF at = "patch" THEN RemoveTree(f, call.dirname) ELSE f
    /\ events' = events \o ev \o (IF at = "patch" THEN <<[k |-> "rmtree", dir |-> call.dirname]>> ELSE <<>>)
    /\ Over(exc, <<>>, at)

\* no file is refused
check_hash_unchecked(w, what, path, hash_required, f) == ""

\* check_hash(what, path, hash_required): the exception it raises, "" for none
check_hash(w, what, path, hash_required, f) ==
    IF what \o "_hash" \notin DOMAIN w.values
    THEN IF hash_required THEN "WrapException" ELSE ""
    ELSE IF sha256(f[path].v) # Lower(w.values[what \o "_hash"]) THEN "WrapException"
    ELSE ""

\* get_file_internal(what) up to the download: stage "acquire" for the
\* source, "patch" for the patch; next is where the call goes on with the file
GetFileInternal(what, at, next) ==
    LET w == heap[call.wrap]
        cache_path == cachedir \o <<w.values[what \o "_filename"]>>
        path == filesdir(w) \o <<w.values[what \o "_filename"]>>
        with(p) == call' = [call EXCEPT !.path = p]
    IN  IF what \o "_filename" \notin DOMAIN w.values THEN Throw("WrapException", fs, <<>>, at)
        ELSE IF what \o "_url" \in DOMAIN w.values
        THEN IF exists(fs, cache_path)
             THEN IF check_hash(w, what, cache_path, TRUE, fs) # ""
                  THEN Throw("WrapException", fs, <<>>, at)
                  ELSE /\ pc' = next /\ with(cache_path)
                       /\ UNCHANGED <<fs, events, dl, res>>
             ELSE /\ pc' = "download" /\ with(cache_path)
                  /\ fs' = WriteFile(fs, cachedir, Node("dir", NoneV))
                  /\ dl' = [what |-> what, fallback |-> FALSE, ofname |-> cache_path,
                            at |-> at, next |-> next]
                  /\ UNCHANGED <<events, res>>
        ELSE IF ~exists(fs, path) THEN Throw("WrapException", fs, <<>>, at)
        ELSE IF check_hash(w, what, path, FALSE, fs) # "" THEN Throw("WrapException", fs, <<>>, at)
        ELSE /\ pc' = next /\ with(path)
             /\ UNCHANGED <<fs, events, dl, res>>

\* get_file, line 607
GetFile ==
    /\ pc = "get_file"
    /\ GetFileInternal("source", "acquire", "unpack")
    /\ UNCHANGED <<fixed, heap, wraps, provided_deps, provided_programs, index, hist>>

\* download, lines 802-813: r is what get_data_with_backoff gave.  The log
\* gets what was fetched and the exception the call raised, if any, before
\* the except clause of line 810 saw it
Downloaded(r, values, faults) ==
    hist' = [hist EXCEPT !.faults = @ + faults, !.once = Warned(hist, r.ev).once] /\
    LET has_hash == dl.what \o "_hash" \in DOMAIN values
        verified == r.exc = "" /\ has_hash /\ HashMatches(r.hash, Lower(values[dl.what \o "_hash"]))
        exc == IF r.exc = "" THEN "WrapException" ELSE r.exc
        fetched == (IF r.exc # "" THEN <<>>
                    ELSE <<[k |-> "fetched", what |-> dl.what, fallback |-> dl.fallback,
                            tmpfile |-> r.tmpfile, hash |-> r.hash,
                            expected |-> IF has_hash THEN Lower(values[dl.what \o "_hash"])
                                         ELSE NoneV]>>)
                   \o (IF verified THEN <<>>
                       ELSE <<[k |-> "raised", what |-> dl.what, fallback |-> dl.fallback,
                               exc |-> exc, w |-> call.wrap]>>)
        f1 == IF r.exc = "" /\ has_hash /\ ~verified THEN RemoveFile(r.fs, r.tmpfile) ELSE r.fs
    IN  IF verified
        THEN /\ fs' = WriteFile(RemoveFile(r.fs, r.tmpfile), dl.ofname, Node("blob", r.fs[r.tmpfile].v))
             /\ events' = events \o r.ev \o fetched
             /\ pc' = dl.next
             /\ UNCHANGED <<call, dl, res>>
        ELSE IF r.exc \in {"", "WrapException"} /\ ~dl.fallback
                /\ dl.what \o "_fallback_url" \in DOMAIN values
        THEN /\ fs' = f1
             /\ events' = events \o r.ev \o fetched
             /\ dl' = [dl EXCEPT !.fallback = TRUE]
             /\ UNCHANGED <<pc, call, res>>
        ELSE Throw(exc, f1, r.ev \o fetched, dl.at)

\* download(what, ofname, fallback): one call; the call for the fallback URL
\* is the next step
DownloadFrom(values, key) ==
    IF cfg.wrap_mode = "nodownload" \/ key \notin DOMAIN values
    THEN Throw("WrapException", fs, <<>>, dl.at) /\ hist' = hist
    ELSE \E orc \in Oracles(values[key], cfg) :
            /\ hist.faults + Faults(orc) <= MaxFaults
            /\ Downloaded(get_data_with_backoff(values[key], cfg @@ [once |-> hist.once], orc, 1, fs,
                              <<[k |-> "download", what |-> dl.what, fallback |-> dl.fallback]>>),
                          values, Faults(orc))

Download ==
    /\ pc = "download"
    /\ DownloadFrom(heap[call.wrap].values,
                    dl.what \o (IF dl.fallback THEN "_fallback_url" ELSE "_url"))
    /\ UNCHANGED <<fixed, heap, wraps, provided_deps, provided_programs, index>>

----------------------------------------------------------------------------
(* Unpacking, patching and the end of resolve *)

\* shutil.unpack_archive(path, extract_dir): ReadError for what is no archive
unpack_archive(f, path, extract_dir) ==
    LET a == Archive(f[path].v)
    IN  IF a.valid THEN [exc |-> "", fs |-> Populate(f, extract_dir, a.tree)]
        ELSE [exc |-> "ReadError", fs |-> f]

\* get_file, lines 608-614
Unpack ==
    /\ pc = "unpack"
    /\ LET lead == "lead_directory_missing" \in DOMAIN heap[call.wrap].values
           f1 == IF lead THEN WriteFile(fs, call.dirname, Node("dir", NoneV)) ELSE fs
           r == unpack_archive(f1, call.path, IF lead THEN call.dirname ELSE subdir_root)
       IN  IF r.exc # "" THEN Throw(r.exc, f1, <<>>, "acquire")
           ELSE /\ fs' = r.fs
                /\ pc' = "patch"
                /\ UNCHANGED <<events, call, dl, res>>
    /\ UNCHANGED <<fixed, heap, wraps, provided_deps, provided_programs, index, hist>>

\* apply_patch, line 838: the wrap file names a patch both ways
PatchKeysClash(values) == "patch_filename" \in DOMAIN values /\ "patch_directory" \in DOMAIN values

\* copy_tree(root_src_dir, root_dst_dir)
copy_tree(f, src, dst) ==
    LET from == {q \in DOMAIN f : IsPrefix(src, q)}
        to(q) == dst \o SubSeq(q, Len(src) + 1, Len(q))
    IN  [p \in {to(q) : q \in from} |-> f[CHOOSE q \in from : to(q) = p]] @@ f

\* apply_patch up to the unpacking of a patch archive
ApplyPatch ==
    /\ pc = "patch"
    /\ LET w == heap[call.wrap]
           src_dir == filesdir(w) \o <<w.values["patch_directory"]>>
       IN  IF PatchKeysClash(w.values) THEN Throw("WrapException", fs, <<>>, "patch")
           ELSE IF "patch_filename" \in DOMAIN w.values
           THEN GetFileInternal("patch", "patch", "unpack_patch")
           ELSE IF "patch_directory" \in DOMAIN w.values
           THEN IF ~isdir(fs, src_dir) THEN Throw("WrapException", fs, <<>>, "patch")
                ELSE /\ fs' = copy_tree(fs, src_dir, call.dirname)
                     /\ pc' = "diff"
                     /\ UNCHANGED <<events, call, dl, res>>
           ELSE /\ pc' = "diff"
                /\ UNCHANGED <<fs, events, call, dl, res>>
    /\ UNCHANGED <<fixed, heap, wraps, provided_deps, provided_programs, index, hist>>

\* apply_patch, lines 843-848: the archive is unpacked over the subprojects
\* directory; what is no archive fails both ways of unpacking
UnpackPatch ==
    /\ pc = "unpack_patch"
    /\ LET r == unpack_archive(fs, call.path, subdir_root)
       IN  IF r.exc # "" THEN Throw(r.exc, fs, <<>>, "patch")
           ELSE /\ fs' = r.fs
                /\ pc' = "diff"
                /\ UNCHANGED <<events, call, dl, res>>
    /\ UNCHANGED <<fixed, heap, wraps, provided_deps, provided_programs, index, hist>>

\* apply_diff_files from file i on; the tool fails on file bad (0: on none)
RECURSIVE apply_diff_files(_, _, _, _, _, _)
apply_diff_files(w, i, bad, f, c, ev) ==
    LET path == filesdir(w) \o w.diff_files[i]
        tool == IF c.PATCH THEN "patch" ELSE "git"
        run == [k |-> "proc", tool |-> tool, sub |-> "apply", arg |-> "", ok |-> i # bad]
    IN  IF i > Len(w.diff_files) THEN [exc |-> "", ev |-> ev]
        ELSE IF ~exists(f, path) THEN [exc |-> "WrapException", ev |-> ev]
        ELSE IF ~c.PATCH /\ ~c.GIT THEN [exc |-> "WrapException", ev |-> ev]
        ELSE IF i = bad THEN [exc |-> "WrapException", ev |-> Append(ev, run)]
        ELSE apply_diff_files(w, i + 1, bad, f, c, Append(ev, run))

ApplyDiff ==
    /\ pc = "diff"
    /\ \E bad \in 0..Len(heap[call.wrap].diff_files) :
        LET r == apply_diff_files(heap[call.wrap], 1, bad, fs, cfg, <<>>)
        IN  IF r.exc # "" THEN Throw(r.exc, fs, r.ev, "patch")
            ELSE /\ events' = events \o r.ev
                 /\ pc' = "finish"
                 /\ UNCHANGED <<fs, call, dl, res>>
    /\ UNCHANGED <<fixed, heap, wraps, provided_deps, provided_programs, index, hist>>

\* update_hash_cache
update_hash_cache(w, dir, f) ==
    IF w.has_wrap
    THEN WriteFile(f, dir \o <<".meson-subproject-wrap-hash.txt">>,
                   Node("hash", w.wrapfile_hash \o <<Newline>>))
    ELSE f

\* resolve, lines 541-557
Finish ==
    /\ pc = "finish"
    /\ IF call.method = "cargo" /\ ~call.existing
       THEN IF call.cargo.none
            THEN /\ Over("TypeError", <<>>, "finish")
                 /\ UNCHANGED <<fs, events, heap, wraps, provided_deps, provided_programs>>
            ELSE IF Len(call.outer) + 1 >= MaxRecursion
            THEN /\ Over("RecursionError", <<>>, "finish")
                 /\ UNCHANGED <<fs, events, heap, wraps, provided_deps, provided_programs>>
            ELSE /\ Enter(call.packagename, call.method,
                          CargoDict(load_all_manifests(fs, dirname(call.dirname)) @@ call.cargo.map),
                          [args |-> call.args, outer |-> Append(call.outer, call.method),
                           prev |-> call.prev, head |-> call.head, direct |-> call.direct],
                          events)
                 /\ dl' = NoCall
       ELSE /\ IF ~exists(fs, call.buildfile)
               THEN /\ Over("WrapException", <<>>, "finish")
                    /\ fs' = fs
               ELSE /\ Over("", <<call.rel_path, call.method>>, "finish")
                    /\ fs' = IF call.method # "cargo"
                             THEN update_hash_cache(heap[call.wrap], call.dirname, fs) ELSE fs
            /\ UNCHANGED <<events, heap, wraps, provided_deps, provided_programs>>
    /\ UNCHANGED <<fixed, index, hist>>

Next ==
    \/ PostInit \/ MergeWraps
    \/ FindDepProvider \/ FindProgramProvider
    \/ ResolveStart \/ ResolveSubmodule
    \/ GetGit \/ GetHg \/ GetSvn
    \/ GetFile \/ Download \/ Unpack
    \/ ApplyPatch \/ UnpackPatch \/ ApplyDiff \/ Finish

Spec == Init /\ [][Next]_vars

-----------------------------------------------------------------------------
(* Two calls that fetch the source of one wrap file into the same cache,   *)
(* interleaved: get_file_internal, download and get_data step by step      *)

Procs == {"p", "q"}

\* blocksize of get_data, in characters of the short bodies of the model
BlockSize == 4

\* how many requests or reads fail while the two calls run
MaxCacheFaults == 1

\* the values of the wrap file both calls resolve, and its file in the cache
SharedValues == fs[WrapPath(subdir_root, "b")].v.vals
SharedCachePath == cachedir \o <<SharedValues["source_filename"]>>

Worker(pcw, fallback, i, tmpfile, resp, hashed, exc) ==
    [pc |-> pcw, fallback |-> fallback, i |-> i, tmpfile |-> tmpfile, resp |-> resp,
     hashed |-> hashed, exc |-> exc]

CacheInit ==
    /\ fs = S_file.fs /\ cfg = S_file.cfg
    /\ pc = "idle"
    /\ heap = EmptyMap /\ wraps = EmptyMap
    /\ provided_deps = EmptyMap /\ provided_programs = EmptyMap
    /\ wrapdb = EmptyMap /\ wrapdb_provided_deps = EmptyMap /\ wrapdb_provided_programs = EmptyMap
    /\ call = NoCall /\ dl = NoCall
    /\ events = <<>>
    /\ res = NoRes
    /\ hist = [calls |-> 0, faults |-> 0, once |-> FALSE]
    /\ workers = [p \in Procs |-> Worker("get_file", FALSE, 1, <<>>, "", "", "")]

\* download, lines 807-812: exc leaves the try of download
download_raised(w, exc, values) ==
    IF exc = "WrapException" /\ ~w.fallback /\ "source_fallback_url" \in DOMAIN values
    THEN [w EXCEPT !.pc = "tmpfile", !.fallback = TRUE, !.i = 1]
    ELSE [w EXCEPT !.pc = "done", !.exc = exc]

\* get_data_with_backoff, lines 788-794: get_data raised exc in attempt w.i
get_data_raised(w, exc, values) ==
    IF w.i <= Len(delays) THEN [w EXCEPT !.pc = "tmpfile", !.i = @ + 1]
    ELSE download_raised(w, exc, values)

\* the step of worker p leaves the files f and the worker as w
WorkerStep(p, w, f, faults) ==
    /\ workers' = [workers EXCEPT ![p] = w]
    /\ fs' = f
    /\ hist' = [hist EXCEPT !.faults = @ + faults]
    /\ UNCHANGED <<cfg, pc, heap, wraps, provided_deps, provided_programs, index, call, dl,
                   events, res>>

\* get_file_internal, lines 818-826
WorkerGetFile(p) ==
    /\ workers[p].pc = "get_file"
    /\ IF exists(fs, SharedCachePath)
       THEN WorkerStep(p, [workers[p] EXCEPT
                              !.pc = "done",
                              !.exc = check_hash([values |-> SharedValues], "source",
                                                 SharedCachePath, TRUE, fs)], fs, 0)
       ELSE WorkerStep(p, [workers[p] EXCEPT !.pc = "tmpfile"],
                       WriteFile(fs, cachedir, Node("dir", NoneV)), 0)

\* get_data, lines 717-719: the temporary file is created in the cache
WorkerTmpfile(p) ==
    /\ workers[p].pc = "tmpfile"
    /\ WorkerStep(p, [workers[p] EXCEPT !.pc = "urlopen", !.tmpfile = TmpName(fs), !.hashed = ""],
                  WriteFile(fs, TmpName(fs), Node("tmp", "")), 0)

\* get_data, lines 740-745: the request
WorkerUrlopen(p) ==
    /\ workers[p].pc = "urlopen"
    /\ \/ /\ hist.faults < MaxCacheFaults
          /\ WorkerStep(p, get_data_raised(workers[p], "WrapException", SharedValues), fs, 1)
       \/ \E body \in Served(SharedValues[IF workers[p].fallback THEN "source_fallback_url"
                                            ELSE "source_url"]) :
             WorkerStep(p, [workers[p] EXCEPT !.pc = "read", !.resp = body], fs, 0)

\* the block is written to the file at the final path
WriteBlockInPlace(f, tmpfile, ofname, block) ==
    WriteFile(f, ofname, Node("tmp", (IF exists(f, ofname) THEN f[ofname].v ELSE "") \o block))

\* get_data, lines 767-768: tmpfile.write(block)
WriteBlock(f, tmpfile, ofname, block) ==
    WriteFile(f, tmpfile, Node("tmp", f[tmpfile].v \o block))

\* get_data, lines 763-772: one turn of the loop that reads the response
read_block(p, w, block) ==
    IF block = "" THEN WorkerStep(p, [w EXCEPT !.pc = "hash"], fs, 0)
    ELSE WorkerStep(p, [w EXCEPT !.resp = SubSeq(@, Len(block) + 1, Len(@)),
                                 !.hashed = @ \o block],
                    WriteBlock(fs, w.tmpfile, SharedCachePath, block), 0)
WorkerRead(p) ==
    /\ workers[p].pc = "read"
    /\ \/ /\ hist.faults < MaxCacheFaults
          /\ WorkerStep(p, get_data_raised(workers[p], "OSError", SharedValues), fs, 1)
       \/ read_block(p, workers[p],
                     SubSeq(workers[p].resp, 1,
                            IF Len(workers[p].resp) < BlockSize THEN Len(workers[p].resp)
                            ELSE BlockSize))

\* download, lines 802-806: the digest of what was read against the declared one
WorkerHash(p) ==
    /\ workers[p].pc = "hash"
    /\ IF "source_hash" \notin DOMAIN SharedValues
       THEN WorkerStep(p, download_raised(workers[p], "WrapException", SharedValues), fs, 0)
       ELSE IF ~HashMatches(sha256(workers[p].hashed), Lower(SharedValues["source_hash"]))
       THEN WorkerStep(p, download_raised(workers[p], "WrapException", SharedValues),
                       RemoveFile(fs, workers[p].tmpfile), 0)
       ELSE WorkerStep(p, [workers[p] EXCEPT !.pc = "rename"], fs, 0)

\* download, line 812: os.rename(tmpfile, ofname)
WorkerRename(p) ==
    /\ workers[p].pc = "rename"
    /\ WorkerStep(p, [workers[p] EXCEPT !.pc = "done"],
                  WriteFile(RemoveFile(fs, workers[p].tmpfile), SharedCachePath,
                            Node("blob", fs[workers[p].tmpfile].v)), 0)

CacheNext ==
    \E p \in Procs :
        \/ WorkerGetFile(p) \/ WorkerTmpfile(p) \/ WorkerUrlopen(p)
        \/ WorkerRead(p) \/ WorkerHash(p) \/ WorkerRename(p)

CacheSpec == CacheInit /\ [][CacheNext]_vars

----------------------------------------------------------------------------
(* get_data and the netrc file: one request for a URL, under the netrc file
   that load_netrc read *)

\* the netrc file: absent, without entries, with an entry for ex.com, with
\* entries for ex.com (that has an account) and for the registry
Entry(login, account, password) == [login |-> login, account |-> account, password |-> password]
Netrcs ==
    {[none |-> TRUE, map |-> EmptyMap],
     [none |-> FALSE, map |-> EmptyMap],
     [none |-> FALSE, map |-> ("ex.com" :> Entry("joe", NoneV, "pw"))],
     [none |-> FALSE, map |-> ("ex.com" :> Entry("joe", "acct", "pw"))
                              @@ (WHITELIST_SUBDOMAIN :> Entry("joe", NoneV, "pw"))]}

\* the URLs asked for: three schemes; a host, the host with a port, with
\* user info, another host and the registry
NetrcUrls ==
    {scheme \o "://" \o netloc \o "/src-1.0.tgz" :
        scheme \in {"https", "http", "ftp"},
        netloc \in {"ex.com", "ex.com:8080", "joe@ex.com", "other.org", WHITELIST_SUBDOMAIN}}

NetrcInit ==
    /\ fs = Dirs({cachedir}) @@ BaseFS
    /\ \E n \in Netrcs : cfg = [DefaultCfg EXCEPT !.netrc = n]
    /\ pc = "get_data"
    /\ heap = EmptyMap /\ wraps = EmptyMap
    /\ provided_deps = EmptyMap /\ provided_programs = EmptyMap
    /\ wrapdb = EmptyMap /\ wrapdb_provided_deps = EmptyMap /\ wrapdb_provided_programs = EmptyMap
    /\ call = NoCall /\ dl = NoCall
    /\ events = <<>>
    /\ res = NoRes
    /\ hist = [calls |-> 0, faults |-> 0, once |-> FALSE]
    /\ workers = <<>>

\* get_data(urlstring): one call, the server failing or sending a body
NetrcGetDataOf(urlstring, r) ==
    /\ fs' = r.fs
    /\ events' = r.ev
    /\ res' = [op |-> "get_data", exc |-> r.exc, args |-> urlstring]
    /\ pc' = "done"

NetrcGetData ==
    /\ pc = "get_data"
    /\ \E urlstring \in NetrcUrls : \E o \in {"URLError"} \cup Served(urlstring) :
          NetrcGetDataOf(urlstring,
                         get_data(urlstring, cfg @@ [once |-> hist.once], o, "URLError", fs))
    /\ UNCHANGED <<fixed, heap, wraps, provided_deps, provided_programs, index, call, dl, hist>>

NetrcNext == NetrcGetData

NetrcSpec == NetrcInit /\ [][NetrcNext]_vars

----------------------------------------------------------------------------
(* The provider registry: add_wrap and merge_wraps *)

\* the add_wrap calls of the operation that ran last
AddWrapCalls == {i \in DOMAIN events : events[i].k = "add_wrap"}

\* a name the call is to register is held by another descriptor when the
\* call starts
ClaimedByOther(e) ==
    \/ \E n \in e.dep_names : n \in DOMAIN e.pre_deps /\ e.pre_deps[n] # e.w
    \/ \E n \in e.program_names : n \in DOMAIN e.pre_progs /\ e.pre_progs[n] # e.w

\* the call leaves every name of the descriptor registered to it
AllRegistered(e) ==
    /\ \A n \in e.dep_names : n \in DOMAIN e.deps /\ e.deps[n] = e.w
    /\ \A n \in e.program_names : n \in DOMAIN e.progs /\ e.progs[n] = e.w

\* C3: add_wrap(d) fails exactly when one of the names d provides is held by
\* a different descriptor; when none is, it returns with every name of d
\* registered to d.
C3_AddWrapFailsExactlyOnForeignOwner ==
    \A i \in AddWrapCalls :
        /\ (events[i].exc # "") <=> ClaimedByOther(events[i])
        /\ ~ClaimedByOther(events[i]) => AllRegistered(events[i])

\* every name that has an owner keeps it over a step
OwnersKept ==
    /\ \A n \in DOMAIN provided_deps :
            n \in DOMAIN provided_deps' /\ provided_deps'[n] = provided_deps[n]
    /\ \A n \in DOMAIN provided_programs :
            n \in DOMAIN provided_programs' /\ provided_programs'[n] = provided_programs[n]

\* an add_wrap call for a name another descriptor holds raises
AddWrapConflictsReported ==
    \A i \in AddWrapCalls : ClaimedByOther(events[i]) => events[i].exc = "WrapException"

\* a merge that meets a name held by another descriptor ends with an error
MergeConflictsReported ==
    (res.op = "merge_wraps" /\ events[1].shadowed # {}) => res.exc # ""

\* C4 as stated: no name changes owner, and a second descriptor that claims
\* an owned name is reported as a conflict, in add_wrap and in merge_wraps
C4_EveryConflictReported ==
    [][OwnersKept /\ AddWrapConflictsReported' /\ MergeConflictsReported']_vars

\* C4: across load_wraps, add_wrap, get_from_wrapdb, merge_wraps and resolve
\* a name that has an owner never changes owner; add_wrap reports a second
\* descriptor claiming it as a conflict (merge_wraps keeps the first owner
\* and reports nothing).
C4_OwnerNeverChanges ==
    [][OwnersKept /\ AddWrapConflictsReported']_vars

\* a merge met names the main resolver had given to other descriptors
C4_Witness ==
    /\ res.op = "merge_wraps"
    /\ events[1].shadowed # {}
    /\ \A n \in events[1].shadowed :
         \/ n \in DOMAIN provided_deps /\ ~IsPrefix(sub_root, provided_deps[n])
         \/ n \in DOMAIN provided_programs /\ ~IsPrefix(sub_root, provided_programs[n])

----------------------------------------------------------------------------
(* get_git *)

\* the commands a step ran: the events it added
Ran == SubSeq(events', Len(events) + 1, Len(events'))

\* the commands run for a revision that is HEAD in some letter case: the
\* clone, and no checkout
HeadCloneOnly(n) ==
    /\ n[1].sub = "clone"
    /\ \A i \in DOMAIN n : n[i].sub \notin {"checkout", "fetch"}

\* the commands run for another revision without depth: after the clone
\* comes the checkout of the revision, and a fetch only after that checkout
\* failed
CheckoutAfterClone(n, revno) ==
    /\ n[1].sub = "clone"
    /\ n[1].ok => Len(n) >= 2 /\ n[2].sub = "checkout" /\ n[2].arg = revno
    /\ \A i \in DOMAIN n : n[i].sub = "checkout" => i > 1
    /\ \A i \in DOMAIN n :
         n[i].sub = "fetch" => i = 3 /\ n[2].sub = "checkout" /\ ~n[2].ok /\ n[i].arg = revno

GetGitSteps(values) ==
    /\ Lower(values["revision"]) = "head" => HeadCloneOnly(Ran)
    /\ (Lower(values["revision"]) # "head" /\ Get(values, "depth", "") = "")
         => CheckoutAfterClone(Ran, values["revision"])

\* C8: for a revision that is HEAD in any letter case get_git runs the clone
\* and never a checkout, with and without depth; for another revision
\* without depth it attempts the checkout of the revision after the clone,
\* and fetches the revision only after that first checkout failed.
C8_HeadSkipsCheckout ==
    [][(pc = "get_git" /\ Len(events') > Len(events)) => GetGitSteps(heap[call.wrap].values)]_vars

\* get_git went through clone, failed checkout, fetch and checkout for a
\* revision other than HEAD
C8_Witness ==
    /\ pc = "patch"
    /\ heap[call.wrap].type = "git"
    /\ heap[call.wrap].values["revision"] = "v1"
    /\ \E i \in DOMAIN events :
         /\ i + 3 <= Len(events)
         /\ events[i].k = "proc" /\ events[i].sub = "clone" /\ events[i].ok
         /\ events[i + 1].sub = "checkout" /\ ~events[i + 1].ok
         /\ events[i + 2].sub = "fetch" /\ events[i + 2].ok
         /\ events[i + 3].sub = "checkout" /\ events[i + 3].ok

----------------------------------------------------------------------------
(* resolve: what a failed call leaves behind *)

\* the call that ran last raised between the start of the acquisition and
\* the end of apply_diff_files
FailedInAcquisitionOrPatch ==
    /\ pc = "idle"
    /\ res.op = "resolve"
    /\ res.exc # ""
    /\ res.at \in {"acquire", "patch"}

\* C1: when resolve fails at any point from the acquisition through the
\* patch and the diff files, the target directory the call created is gone
\* when the exception reaches the caller.
C1_FailureRemovesDirectory ==
    FailedInAcquisitionOrPatch => ~exists(fs, res.dirname)

----------------------------------------------------------------------------
(* Downloads: digests, the registry's host, the fallback URL *)

\* a file was fetched whose digest is not the declared one
Mismatch(e) == e.k = "fetched" /\ e.expected # NoneV /\ e.hash # e.expected

\* the cache files a step creates: those of packagecache that are no
\* temporary files
NewCacheFiles ==
    {p \in DOMAIN fs' \ DOMAIN fs : dirname(p) = cachedir /\ fs'[p].k # "tmp"}

\* the step fetched a file with a wrong digest: download raises
\* WrapException, the temporary file is gone and no cache file was made
MismatchRaises ==
    \A i \in DOMAIN Ran :
        Mismatch(Ran[i]) =>
            /\ i < Len(Ran)
            /\ Ran[i + 1].k = "raised" /\ Ran[i + 1].exc = "WrapException"
            /\ Ran[i].tmpfile \notin DOMAIN fs'
            /\ NewCacheFiles = {}

\* a cache file a step creates is the download's destination, and its
\* SHA-256 digest is the one the wrap file declares
CacheFilesVerified ==
    \A p \in NewCacheFiles :
        /\ pc = "download"
        /\ p = dl.ofname
        /\ dl.what \o "_hash" \in DOMAIN heap[call.wrap].values
        /\ sha256(fs'[p].v) = Lower(heap[call.wrap].values[dl.what \o "_hash"])

\* C2: on a hash mismatch download raises a WrapException (which download
\* itself catches when a fallback URL is still to be tried), the temporary
\* file is deleted and no file is created at the cache path; a file appears
\* at the cache path only after its SHA-256 digest matched the declared one.
C2_MismatchLeavesNoCacheFile ==
    [][MismatchRaises /\ CacheFilesVerified]_vars

\* a call ended on a source whose digest was wrong, and the cache has no
\* file of its name
C2_Witness ==
    /\ pc = "idle"
    /\ res.op = "resolve"
    /\ res.exc = "WrapException"
    /\ Len(events) >= 2
    /\ Mismatch(events[Len(events) - 1])
    /\ events[Len(events)].k = "raised"
    /\ events[Len(events) - 1].tmpfile \notin DOMAIN fs
    /\ ~exists(fs, cachedir \o <<"src-1.0.tgz">>)

\* C9: no request goes through the registry's channel (open_wrapdburl) to a
\* host other than wrapdb.mesonbuild.com itself.
C9_RegistryChannelOnlyToRegistry ==
    \A i \in DOMAIN events :
        (events[i].k = "net" /\ events[i].via = "open_wrapdburl")
            => events[i].host = "wrapdb.mesonbuild.com"

\* the download of what from the primary URL raised at event i, and the wrap
\* file declares a fallback URL
PrimaryFailed(i) ==
    /\ events[i].k = "raised"
    /\ ~events[i].fallback
    /\ events[i].what \o "_fallback_url" \in DOMAIN heap[events[i].w].values

\* the fallback URL is tried after event i, or is the next thing the call does
FallbackTried(i) ==
    \/ \E j \in DOMAIN events :
         j > i /\ events[j].k = "download" /\ events[j].fallback /\ events[j].what = events[i].what
    \/ pc = "download" /\ dl.fallback /\ dl.what = events[i].what /\ i = Len(events)

\* the download from the fallback URL raised at event i: it was the only one
\* from that URL, and the call ended with the exception
FallbackFinal(i) ==
    (events[i].k = "raised" /\ events[i].fallback) =>
        /\ Cardinality({j \in DOMAIN events : /\ events[j].k = "download"
                                               /\ events[j].fallback
                                               /\ events[j].what = events[i].what}) = 1
        /\ \A j \in DOMAIN events : j > i => events[j].k \notin {"download", "net", "fetched"}
        /\ pc = "idle" /\ res.op = "resolve" /\ res.exc = events[i].exc

\* C10: when the download from the primary source or patch URL fails for
\* any reason and a fallback URL is declared, the fallback URL is tried; it
\* is tried at most once, and its failure ends the call.
C10_FallbackAfterAnyPrimaryFailure ==
    \A i \in DOMAIN events :
        /\ PrimaryFailed(i) => FallbackTried(i)
        /\ FallbackFinal(i)

\* the events of a call that reach the network: requests, and the commands
\* that clone, fetch or check out from a remote repository
NetworkActivity(e) ==
    \/ e.k = "net"
    \/ e.k = "proc" /\ e.sub \in {"clone", "fetch", "submodule update"}
    \/ e.k = "proc" /\ e.tool = "svn"

\* the wrap file of name declares patch_directory and patch_filename
BothPatchKeys(name) ==
    name \in DOMAIN wraps /\ PatchKeysClash(heap[wraps[name]].values)

\* C7: a descriptor that declares both patch_directory and patch_filename is
\* rejected before any network activity, and resolve never returns success
\* for it.
C7_BothPatchKeysRejected ==
    /\ (pc \notin {"new", "failed", "idle"} /\ BothPatchKeys(call.packagename))
        => \A i \in DOMAIN events : ~NetworkActivity(events[i])
    /\ (pc = "idle" /\ res.op = "resolve" /\ BothPatchKeys(res.args.name))
        => /\ res.exc # ""
           /\ \A i \in DOMAIN events : ~NetworkActivity(events[i])

----------------------------------------------------------------------------
(* resolve: the fast path *)

\* a resolve call has ended; a resolve call is under way
Ended == pc = "idle" /\ res.op = "resolve"
Underway == pc \notin {"new", "failed", "idle"}

\* the call returned from line 513: the only return before line 516, taken
\* when the expected root build file exists
TookFastPath == Ended /\ res.exc = "" /\ res.at = "head"

\* the events of a call that are a network request, a download or a
\* subprocess
Activity(e) == e.k \in {"net", "download", "proc"}
NoActivity == \A i \in DOMAIN events : ~Activity(events[i])

\* the call follows at once a resolve call that succeeded
FollowsSuccessOf(same) == Ended /\ res.prev.ok /\ same

\* C6: when the expected root build file of a subproject exists, a resolve
\* call that follows at once a successful resolve of the same name takes the
\* fast path: it makes no network request, starts no subprocess and returns
\* success.  The call that is given the name, method and cargo_projects of
\* the one before it expects the root build file which that one found.
C6_SecondResolveIsFast ==
    /\ (FollowsSuccessOf(res.prev.args.name = res.args.name) /\ TookFastPath) => NoActivity
    /\ FollowsSuccessOf(res.prev.args = res.args) => TookFastPath /\ NoActivity
    /\ Underway => ~(call.prev.ok /\ call.prev.args = call.args)

----------------------------------------------------------------------------
(* Redirect files *)

\* the call's descriptor was redirected, r holds what the call and the
\* direct resolution of the target came to
SameAsDirect(r) == r.direct.redirected => r.head = r.direct.s

\* C5 as stated: resolving through any redirect descriptor gives the
\* relative path and the method that resolving its target directly gives
C5_RedirectSameAsDirect ==
    /\ Underway => SameAsDirect(call)
    /\ Ended => SameAsDirect(res)

\* the redirect file of the descriptor of name bears the name of its target
NamedAsTarget(name) ==
    /\ name \in DOMAIN wraps
    /\ heap[wraps[name]].basename = basename(heap[wraps[name]].filename)

\* C5: resolving through a redirect descriptor that points at
\* a/subprojects/b.wrap and is itself named b.wrap returns the relative path
\* and the method that resolving a/subprojects/b.wrap directly returns,
\* whatever the target holds and whether or not the target directory exists.
C5_RedirectNamedAsTargetSameAsDirect ==
    /\ (Underway /\ NamedAsTarget(call.args.name)) => SameAsDirect(call)
    /\ (Ended /\ NamedAsTarget(res.args.name)) => SameAsDirect(res)

\* a call through the redirect file b.wrap returned what the direct
\* resolution returns, from the directory an earlier call had cloned
C5_Witness ==
    /\ Ended
    /\ res.direct.redirected
    /\ res.args.name = "b"
    /\ res.exc = ""
    /\ res.prev.ok
    /\ res.head = res.direct.s
    /\ res.head.path = <<"subprojects", "b">>

\* the calls of get_data and the sleeps of a step, in order
IsBackoffEvent(e) == e.k \in {"get_data", "sleep"}
BackoffLog == SelectSeq(Ran, IsBackoffEvent)

\* what a step logs after the last call of get_data
AfterBackoff(n) ==
    SubSeq(n, CHOOSE i \in DOMAIN n : n[i].k = "get_data" /\ \A j \in DOMAIN n : j > i => n[j].k # "get_data",
           Len(n))

\* attempt i is the entry 2i-1 of the log and the sleep after it the entry 2i:
\* every attempt but the last failed and was followed by the i-th of the
\* delays 1, 2, 4, 8, 16; there are at most six attempts; the last attempt is
\* the first that succeeded, or the sixth
BackoffLaw(b) ==
    /\ Len(b) % 2 = 1
    /\ (Len(b) + 1) \div 2 <= 6
    /\ \A i \in 1..((Len(b) - 1) \div 2) :
          /\ b[2 * i - 1].k = "get_data" /\ b[2 * i - 1].exc # ""
          /\ b[2 * i] = [k |-> "sleep", d |-> <<1, 2, 4, 8, 16>>[i]]
    /\ b[Len(b)].k = "get_data"
    /\ b[Len(b)].exc # "" => Len(b) = 11

\* the outcome of the last attempt is the outcome of get_data_with_backoff:
\* download sees its exception, or its file and digest
BackoffOutcome(b, rest) ==
    /\ Len(rest) >= 2
    /\ IF b[Len(b)].exc # ""
       THEN rest[2].k = "raised" /\ rest[2].exc = b[Len(b)].exc
       ELSE rest[2].k = "fetched"

\* C11: get_data_with_backoff sleeps 1, 2, 4, 8 and 16 seconds, in that
\* order, one sleep after each of the first five failed attempts; it makes at
\* most six attempts, stops at the first attempt that succeeds and returns
\* its result, and lets the exception of the sixth attempt propagate.
C11_BackoffSchedule ==
    [][pc = "download" /\ BackoffLog # <<>>
          => BackoffLaw(BackoffLog) /\ BackoffOutcome(BackoffLog, AfterBackoff(Ran))]_vars

\* five failed attempts, five sleeps, and a sixth attempt that succeeds
C11_Witness ==
    \E i \in DOMAIN events :
        /\ i > 3
        /\ events[i].k = "fetched"
        /\ events[i - 1] = [k |-> "get_data", exc |-> ""]
        /\ events[i - 3] = [k |-> "sleep", d |-> 16]
        /\ Cardinality({j \in 1..i : events[j].k = "get_data" /\ events[j].exc # ""}) = 5

\* the request of the call of resolve that a step enters
Requested == IF pc' = "idle" THEN res'.args ELSE call'.args

\* a step enters resolve for a name that has no descriptor in wraps and is
\* no Cargo subproject already loaded
EntersWithoutDescriptor ==
    /\ pc = "idle"
    /\ hist'.calls = hist.calls + 1
    /\ Requested.name \notin DOMAIN wraps
    /\ ~(Requested.method = "cargo" /\ Requested.name \in DOMAIN Requested.cargo.map)

\* C12: when no local descriptor exists for the requested name, resolve
\* raises WrapNotFoundException unless it obtains a descriptor from the
\* registry; so it does when the name is not in the registry snapshot and
\* when downloads are not permitted.
C12_NoDescriptorIsNotFound ==
    [][EntersWithoutDescriptor
          => \/ Requested.name \in DOMAIN wraps'
             \/ pc' = "idle" /\ res'.exc = "WrapNotFoundException"]_vars

\* a relative path of the model ends in the name of a directory, which is no
\* method name; a pair returned by an inner call ends in one
IsMethod(m) == m \in {"meson", "cmake", "cargo"}
IsRelPath(p) == p # <<>> /\ ~IsMethod(p[Len(p)])
Returned == res.op = "resolve" /\ res.exc = ""

\* C13: every call of resolve that returns normally returns the pair of the
\* relative path of the subproject and the effective method, on every path
\* through resolve, the one that acquires the source first included.
C13_ReturnsPathAndMethod ==
    Returned => /\ Len(res.ret) = 2
                /\ IsRelPath(res.ret[1])
                /\ res.ret[2] = res.head.method /\ IsMethod(res.ret[2])

\* the redirect files of the main project and the filename value of each
RedirectFiles ==
    {p \in WrapFiles(fs, subdir_root) :
        ~fs[p].v.malformed /\ fs[p].v.sec = Section("redirect") /\ "filename" \in DOMAIN fs[p].v.vals}
FilenameOf(p) == fs[p].v.vals["filename"]

\* a filename value v of redirect file p that the claim admits: relative, of
\* the form <segment>/subprojects/<file>.wrap, repeated or not, without "..",
\* and the name of a file
AdmittedRedirect(v, p) ==
    /\ Len(v) >= 3 /\ Len(v) % 2 = 1
    /\ v[1] # "/"
    /\ \A j \in DOMAIN v : /\ v[j] # ".."
                           /\ j % 2 = 0 => v[j] = "subprojects"
    /\ EndsWith(v[Len(v)], ".wrap") /\ Len(v[Len(v)]) > 5
    /\ isfile(fs, dirname(p) \o v)

\* C14: a wrap-redirect file is parsed without error only if its filename
\* value is relative to the directory of the redirect file, has the form
\* <segment>/subprojects/<file>.wrap, holds no ".." and names a file; every
\* other value is rejected with WrapException.  The descriptor then has the
\* target as its file and is flagged redirected.
C14_RedirectFilenameChecked ==
    pc # "new" =>
        \A p \in RedirectFiles :
            IF AdmittedRedirect(FilenameOf(p), p)
            THEN p \in DOMAIN heap => /\ heap[p].redirected
                                      /\ heap[p].filename = dirname(p) \o FilenameOf(p)
            ELSE p \notin DOMAIN heap /\ pc = "failed" /\ res.exc = "WrapException"

\* the candidate names of the last find_program_provider that a local
\* descriptor registered, and those that have any provider
FoundProgram == res.op = "find_program_provider"
LocalAt(names) == {i \in DOMAIN names : names[i] \in DOMAIN provided_programs}
KnownAt(names) ==
    {i \in DOMAIN names : names[i] \in DOMAIN provided_programs \cup DOMAIN wrapdb_provided_programs}
First(is) == CHOOSE i \in is : \A j \in is : i <= j

\* C15: find_program_provider consults the local registrations of all the
\* candidate names before the registry: when a candidate is registered by a
\* local descriptor the result is the name of a local descriptor, and the
\* name that the registry gives only when no candidate is registered locally.
C15_LocalBeforeRegistry ==
    FoundProgram /\ LocalAt(res.args) # {} =>
        res.ret \in {heap[provided_programs[res.args[i]]].name : i \in LocalAt(res.args)}

\* C15, amended: the candidates are taken in order and for each one the
\* local registrations are consulted before the registry: the result is the
\* provider of the first candidate that has one, the local descriptor's name
\* if that candidate is registered locally and the registry's otherwise, and
\* None when no candidate has a provider.
ProviderOf(name) ==
    IF name \in DOMAIN provided_programs THEN heap[provided_programs[name]].name
    ELSE wrapdb_provided_programs[name]
C15_FirstCandidateLocalBeforeRegistry ==
    FoundProgram =>
        IF KnownAt(res.args) = {} THEN res.ret = NoneV
        ELSE res.ret = ProviderOf(res.args[First(KnownAt(res.args))])

\* a later candidate is registered locally, an earlier one in the registry only
C15_Witness ==
    /\ FoundProgram
    /\ LocalAt(res.args) # {}
    /\ First(KnownAt(res.args)) < First(LocalAt(res.args))
    /\ res.ret = "d"

\* the names asked for that differ from name in letter case only
CaseVariants(name) == {n \in cfg.dep_queries : Lower(n) = Lower(name)}
FoundDep == res.op = "find_dep_provider"

\* C16: find_dep_provider returns the same for every letter-case variant of
\* its argument, and when a local descriptor claims the lower-cased name it
\* returns the name of that descriptor and the variable name the descriptor
\* gave for the lower-cased name, or None.
C16_DepProviderIgnoresCase ==
    FoundDep =>
        /\ \A n \in CaseVariants(res.args) :
              find_dep_provider(n, provided_deps, heap, wrapdb_provided_deps) = res.ret
        /\ Lower(res.args) \in DOMAIN provided_deps =>
              /\ res.ret[1] = heap[provided_deps[Lower(res.args)]].name
              /\ Lower(res.args) \in DOMAIN heap[provided_deps[Lower(res.args)]].provided_deps
              /\ res.ret[2] = heap[provided_deps[Lower(res.args)]].provided_deps[Lower(res.args)]

\* asked in another letter case for a name that a wrap file provides with a
\* variable name
C16_Witness ==
    /\ FoundDep
    /\ res.args # Lower(res.args)
    /\ res.ret = <<"b", "bar_dep">>

\* the descriptors made from wrap files
FromWrapFile == {ref \in DOMAIN heap : heap[ref].has_wrap}

\* the wrap files of the main project whose first section is not wrap-<type>
\* for a known type
UnknownSection ==
    {p \in WrapFiles(fs, subdir_root) :
        ~fs[p].v.malformed /\ fs[p].v.sec \notin {Section(t) : t \in ALL_TYPES \cup {"redirect"}}}

\* C17: a descriptor constructed without error from a wrap file has a type
\* among file, git, hg and svn, the type of the target for a redirect; a
\* wrap file whose first section is not wrap-<type> for a known type is not
\* constructed.
C17_TypeIsKnown ==
    /\ \A ref \in FromWrapFile : heap[ref].type \in ALL_TYPES
    /\ pc # "new" => \A p \in UnknownSection : p \notin DOMAIN heap /\ pc = "failed"

\* the wrap files of the main project whose directory key holds a separator
DirectoryIsPath ==
    {p \in WrapFiles(fs, subdir_root) :
        ~fs[p].v.malformed /\ Contains(Get(fs[p].v.vals, "directory", ""), "/")}

\* C18: the directory of every descriptor constructed without error is a
\* name without a path separator; a wrap file whose directory key holds a
\* path separator is not constructed.
C18_DirectoryIsName ==
    /\ \A ref \in DOMAIN heap : ~Contains(heap[ref].directory, "/")
    /\ pc # "new" =>
          \A p \in DirectoryIsPath : p \notin DOMAIN heap /\ pc = "failed" /\ res.exc = "WrapException"

\* the resolver was not constructed over a wrap file with directory = sub/b
C18_Witness ==
    /\ pc = "failed"
    /\ \E p \in DirectoryIsPath : fs[p].v.vals["directory"] = "sub/b"

\* the malformed wrap files of the main project: no ini text, no section, a
\* first section that is not wrap-<type>, a redirect without a filename that
\* parse_wrap admits, diff_files with ".." or an absolute path
BadDiff(path) == (Len(path) > 0 /\ path[1] = "/") \/ ".." \in Range(path)
Malformed(p) ==
    \/ fs[p].v.malformed
    \/ ~StartsWith(fs[p].v.sec, "wrap-")
    \/ /\ fs[p].v.sec = Section("redirect")
       /\ \/ "filename" \notin DOMAIN fs[p].v.vals
          \/ RedirectError(fs[p].v.vals["filename"],
                           RedirectTarget(p, fs[p].v.vals["filename"]), fs)
    \/ \E i \in DOMAIN Get(fs[p].v.vals, "diff_files", <<>>) : BadDiff(fs[p].v.vals["diff_files"][i])

\* C19: constructing a descriptor from a malformed wrap file fails, and
\* always with WrapException, never with an exception of another kind.
C19_MalformedIsWrapException ==
    pc # "new" /\ (\E p \in WrapFiles(fs, subdir_root) : Malformed(p))
        => pc = "failed" /\ res.exc = "WrapException"

\* a request of open_wrapdburl that goes out without TLS authentication,
\* and one for which no authenticated connection was made
ViaRegistry(e) == e.k = "net" /\ e.via = "open_wrapdburl"
Unauthenticated(e) == ViaRegistry(e) /\ e.scheme = "http"
InsecureWarning(e) ==
    e.k = "warning" /\ e.what \in {"Proceeding without authentication", "WrapDB traffic not authenticated"}

\* the i-th event of a step comes after a warning: one of the same step, or
\* the one logged once, earlier in the process
AfterWarning(n, i) == hist.once \/ \E j \in 1..(i - 1) : InsecureWarning(n[j])

\* the request of event i failed, and get_data raised right after it
FailureRaises(n, i) ==
    ViaRegistry(n[i]) /\ ~n[i].ok =>
        i < Len(n) /\ n[i + 1].k = "get_data" /\ n[i + 1].exc # ""

\* C20: open_wrapdburl sends a request without TLS authentication only when
\* allow_insecure is true, and only after a warning was logged; when
\* allow_insecure is false, every https request that fails makes it raise.
C20_InsecureOnlyIfAllowed ==
    [][/\ \A i \in DOMAIN Ran :
             Unauthenticated(Ran[i]) => cfg.allow_insecure /\ AfterWarning(Ran, i)
       /\ ~cfg.allow_insecure => \A i \in DOMAIN Ran : FailureRaises(Ran, i)]_vars

\* after a failed certificate check and a warning, the file came over http
C20_Witness ==
    \E i \in DOMAIN events :
        /\ i > 2
        /\ Unauthenticated(events[i]) /\ events[i].ok
        /\ InsecureWarning(events[i - 1])
        /\ ViaRegistry(events[i - 2]) /\ events[i - 2].scheme = "https" /\ ~events[i - 2].ok
        /\ cfg.allow_insecure

\* the file at the final cache path is a whole body that the server sent
\* and its digest is the declared one
CacheFileComplete ==
    /\ fs[SharedCachePath].v \in Served(SharedValues["source_url"])
    /\ sha256(fs[SharedCachePath].v) = Lower(SharedValues["source_hash"])

\* C21: while two calls download the same artifact into the shared cache,
\* the file at the final cache path either does not exist or holds a
\* complete download whose digest is the declared hash; a partly written
\* file is never there.
C21_CacheFileNeverPartial == exists(fs, SharedCachePath) => CacheFileComplete

\* one call has put the file in the cache while the other has written a part
\* of its own download
C21_Witness ==
    /\ exists(fs, SharedCachePath)
    /\ \E p \in Procs :
          /\ workers[p].pc = "read"
          /\ workers[p].hashed # "" /\ workers[p].resp # ""
          /\ fs[workers[p].tmpfile].v = workers[p].hashed

\* the last call of resolve returned after the lines that acquire the source
\* or populate a submodule: from line 557, or from the call at line 546
Acquired == pc = "idle" /\ Returned /\ (res.at = "finish" \/ ~IsRelPath(res.ret[1]))
ResolvedDir == IF res.at = "finish" THEN res.dirname ELSE source_dir \o res.head.path
HashRecord(dir) == dir \o <<".meson-subproject-wrap-hash.txt">>
BackedByWrapFile(name) == name \in DOMAIN wraps /\ heap[wraps[name]].has_wrap

\* C22: a call of resolve that returns for a descriptor backed by a wrap
\* file, having acquired the source or populated a submodule, leaves in the
\* target directory the file .meson-subproject-wrap-hash.txt holding the
\* hash of the wrap file, whatever the effective method.
C22_HashRecorded ==
    Acquired /\ BackedByWrapFile(res.args.name)
        => /\ exists(fs, HashRecord(ResolvedDir))
           /\ strip(fs[HashRecord(ResolvedDir)].v) = heap[wraps[res.args.name]].wrapfile_hash

\* the step of resolve in which git submodule status printed nothing
EmptyStatus ==
    /\ pc = "submodule" /\ events' # events
    /\ events'[Len(events')].k = "stdout" /\ events'[Len(events')].out = ""
Transports == {"get_file", "get_git", "get_hg", "get_svn"}

\* C23: when git submodule status prints nothing for the target directory,
\* resolve goes on to run the transport of the descriptor's type.
C23_EmptyStatusRunsTransport == [][EmptyStatus => pc' \in Transports]_vars

\* C23, amended: when git submodule status prints nothing for the target
\* directory, resolve_git_submodule changes nothing and raises nothing, and
\* resolve, the directory being there, runs no transport: it goes on with
\* the checks that follow acquisition.
C23_EmptyStatusRunsNothing == [][EmptyStatus => pc' = "finish" /\ fs' = fs]_vars

\* resolve is past the probe of a directory that is no submodule
C23_Witness ==
    /\ pc = "finish" /\ events # <<>>
    /\ events[Len(events)].k = "stdout" /\ events[Len(events)].out = ""

\* what a step of the probe logs, the git submodule commands among it, the
\* first character of the status (NoneV when there was no status), and
\* whether the step raises the fatal error of resolve_git_submodule
Logged == SubSeq(events', Len(events) + 1, Len(events'))
IsSubmoduleCommand(e) == e.k = "proc" /\ e.sub \in {"submodule status", "submodule update"}
SubmoduleCommands(log) == {i \in 1..Len(log) : IsSubmoduleCommand(log[i])}
Marker(log) == IF Len(log) >= 3 /\ log[3].k = "stdout" THEN log[3].out ELSE NoneV
Fatal == pc' = "idle" /\ res'.exc = "WrapException" /\ res'.at = "submodule"
Proceeds == ~(pc' = "idle" /\ res'.at = "submodule")
RunsUpdate(log, i, arg) ==
    Len(log) >= i /\ log[i].k = "proc" /\ log[i].sub = "submodule update" /\ log[i].arg = arg
RunsCheckout(log, i) == Len(log) >= i /\ log[i].k = "proc" /\ log[i].sub = "checkout"
SubmoduleBranches(log, marker) ==
    /\ SubmoduleCommands(log) # {}
           => /\ cfg.GIT /\ isdir(fs, call.dirname)
              /\ log[1].k = "proc" /\ log[1].sub = "rev-parse" /\ log[1].ok
    /\ marker = "+" => Len(log) = 4 /\ log[4].k = "warning" /\ Proceeds
    /\ marker = "U" => Len(log) = 3 /\ Fatal
    /\ marker = "-" => Len(log) = 4 /\ RunsUpdate(log, 4, "--init") /\ (Fatal <=> ~log[4].ok)
    /\ marker = " " => /\ Len(log) = 5 /\ RunsUpdate(log, 4, "") /\ RunsCheckout(log, 5)
                       /\ Proceeds
    /\ marker \notin {"+", "U", "-", " ", "", NoneV} => Len(log) = 3 /\ Fatal

NoRootFile == pc = "finish" /\ ~exists(fs, call.buildfile)
ValidationError == pc' = "idle" /\ res'.exc = "WrapException" /\ res'.at = "finish"

\* C25: when the root build file of the effective method is absent from the
\* target directory after the acquisition, or from a target directory that
\* existed, resolve raises the error "Subproject exists but has no <file>",
\* for every effective method, cargo included; it does not return.
C25_NoRootFileIsError == [][NoRootFile => ValidationError]_vars

\* a call of resolve is entered; the descriptor it uses is that of the name
\* asked for, of which w.filename is the canonical file
ResolveEnters == pc = "idle" /\ hist'.calls = hist.calls + 1
RequestedName == IF pc' = "idle" THEN res'.args.name ELSE call'.args.name
MainFile(w) == subdir_root \o <<w.basename>>
Written(p) == p \in DOMAIN fs' /\ (p \in DOMAIN fs => fs[p] # fs'[p])
IsStub(node, w) ==
    /\ node.k = "wrap" /\ ~node.v.malformed
    /\ node.v.sec = "wrap-redirect" /\ node.v.provide = <<>>
    /\ DOMAIN node.v.vals = {"filename"}
    /\ node.v.vals["filename"] = relpath(w.filename, subdir_root)
    /\ node.v.vals["filename"][1] \notin {"/", ".."}
ParsesTo(pd, w) == pd.exc = "" /\ pd.d.filename = w.filename
StubRoundTrip(w) ==
    w.has_wrap /\ w.filename # MainFile(w) /\ Written(MainFile(w))
        => /\ IsStub(fs'[MainFile(w)], w)
           /\ ParsesTo(PackageDefinition(MainFile(w), fs'), w)

\* C26: when resolve uses a descriptor whose file is not the file of that
\* basename in the subprojects directory of the project, the file it writes
\* there holds one wrap-redirect section with the relative path of the
\* descriptor's file, and constructing a descriptor from the file written
\* succeeds and gives a descriptor of the same file.
C26_StubRoundTrips ==
    [][ResolveEnters /\ RequestedName \in DOMAIN wraps'
           => StubRoundTrip(heap'[wraps'[RequestedName]])]_vars

\* the descriptor of the name asked for, the method its wrap file declares
\* or else the method of the caller, and what lines 497-505 make of it in
\* the directory resolve returned
Asked == heap[wraps[res.args.name]]
Declared(w, method) == Get(w.values, "method", method)
AfterSwitch(method, path) ==
    IF method = "cargo" /\ exists(fs, source_dir \o path \o <<"meson.build">>)
    THEN {"cargo", "meson"} ELSE {method}

\* C27: when the descriptor of a wrap file declares a method, resolve uses
\* that method whatever method the caller passed, and when it declares none
\* resolve uses the method of the caller: the call returns that method, or
\* meson where lines 497-505 replace cargo in a directory with meson.build.
C27_DeclaredMethodWins ==
    Returned /\ res.args.name \in DOMAIN wraps /\ Asked.has_wrap
        => res.head.method \in AfterSwitch(Declared(Asked, res.args.method), res.head.path)

\* a call returned with the method of the wrap file, which the caller did
\* not pass
C27_Witness ==
    /\ Returned /\ res.args.name \in DOMAIN wraps /\ Asked.has_wrap
    /\ "method" \in DOMAIN Asked.values
    /\ res.head.method = Asked.values["method"] /\ res.head.method # res.args.method

\* the arguments of the call that is entered; the manifests it goes by
\* (lines 446-448); whether it is for an existing cargo subproject (line
\* 452); its target directory; whether its descriptor forces cargo
RequestedArgs == IF pc' = "idle" THEN res'.args ELSE call'.args
Known(rq) == rq.name \in DOMAIN wraps
Manifests(rq) ==
    IF Known(rq) /\ heap[wraps[rq.name]].has_wrap /\ rq.cargo.map = EmptyMap
    THEN load_all_manifests(fs, dirname(heap[wraps[rq.name]].filename))
    ELSE rq.cargo.map
Existing(rq) == rq.name \in DOMAIN Manifests(rq)
CargoAsked(rq) ==
    /\ ~rq.cargo.none
    /\ Existing(rq) \/ Known(rq)
    /\ IF Known(rq) /\ heap[wraps[rq.name]].has_wrap
       THEN Declared(heap[wraps[rq.name]], rq.method) = "cargo"
       ELSE rq.method = "cargo"
TargetOf(rq) ==
    IF Existing(rq) THEN Manifests(rq)[rq.name].subdir ELSE TargetDir(heap[wraps[rq.name]], fs)
ForcesCargo(rq) ==
    /\ ~Existing(rq) /\ heap[wraps[rq.name]].has_cargo_values
    /\ Get(heap[wraps[rq.name]].cargo_values, "method", NoneV) = "cargo"
SwitchedToMeson == pc' = "idle" /\ res'.exc = "" /\ res'.ret[2] = "meson"
KeptCargo ==
    IF pc' = "idle" THEN res'.exc = "" /\ res'.ret[2] = "cargo"
    ELSE call'.method = "cargo" /\ call'.buildfile = call'.dirname \o <<"Cargo.toml">>
CargoSwitch(rq) ==
    CargoAsked(rq) /\ exists(fs, TargetOf(rq) \o <<"meson.build">>)
        => IF ForcesCargo(rq) THEN KeptCargo ELSE SwitchedToMeson

\* C28: when the method is cargo and the target directory holds a
\* meson.build, resolve goes on with meson and meson.build exactly if the
\* descriptor does not force cargo, and raises nothing in doing so, be the
\* descriptor that of a wrap file, of a redirect file, of a bare directory,
\* or none (an existing cargo subproject).
C28_CargoSwitchesToMeson == [][ResolveEnters => CargoSwitch(RequestedArgs)]_vars

\* a call of resolve returns from the fast path (line 513); the descriptor
\* it went by and the hash file of the directory it returns
FastPath == ResolveEnters /\ pc' = "idle" /\ res'.exc = ""
HashFileOf(path) == HashRecord(source_dir \o path)
Drifted(w, hashfile) == isfile(fs, hashfile) /\ strip(fs[hashfile].v) # w.wrapfile_hash
DriftWarning == [k |-> "warning", what |-> "wrap file changed"]
WithoutHashFile(rq, hashfile) ==
    Summary(ResolveHead(rq.name, rq.method, rq.cargo, Reply("URLError", MalformedText), wrapdb,
                        cfg.wrap_mode, TheRegistry, RemoveFile(fs, hashfile)))
SoftCheck(rq, w, hashfile) ==
    /\ \A p \in (DOMAIN fs \cup DOMAIN fs') \ {MainFile(w)} :
          p \in DOMAIN fs /\ p \in DOMAIN fs' /\ fs'[p] = fs[p]
    /\ WithoutHashFile(rq, hashfile) = [exc |-> "", path |-> res'.ret[1], method |-> res'.ret[2]]
    /\ (\E i \in 1..Len(events') : events'[i] = DriftWarning) <=> Drifted(w, hashfile)

\* C29: on the fast path the hash file of the directory, be it absent,
\* equal to the hash of the wrap file or different from it, makes validate
\* raise nothing and write nothing, and resolve returns the path and the
\* method it returns without the file; a difference gives a warning and
\* nothing else.
C29_HashCheckIsSoft ==
    [][FastPath /\ Known(RequestedArgs) /\ heap[wraps[RequestedArgs.name]].has_wrap
           /\ ~Existing(RequestedArgs)
           => SoftCheck(RequestedArgs, heap[wraps[RequestedArgs.name]], HashFileOf(res'.ret[1]))]_vars

\* resolve returned from the fast path with the warning of a changed wrap file
C29_Witness ==
    /\ Returned /\ res.at = "head"
    /\ \E i \in 1..Len(events) : events[i] = DriftWarning
    /\ isfile(fs, HashFileOf(res.ret[1]))

\* C30: when add_wrap(d) raises, provided_deps and provided_programs are as
\* they were before the call.
C30_AddWrapAllOrNothing ==
    \A i \in AddWrapCalls :
        events[i].exc # "" => events[i].deps = events[i].pre_deps
                              /\ events[i].progs = events[i].pre_progs

\* the names add_wrap goes through, in its order: the keys of provided_deps,
\* then provided_programs; the registry pre with the names of a set given to w
NamesOf(w) ==
    [i \in DOMAIN w.dep_keys |-> [dep |-> TRUE, n |-> w.dep_keys[i]]]
    \o [i \in DOMAIN w.provided_programs |-> [dep |-> FALSE, n |-> w.provided_programs[i]]]
Given(pre, ns, w) == [n \in DOMAIN pre \cup ns |-> IF n \in DOMAIN pre THEN pre[n] ELSE w]
StoppedAt(e, names, j) ==
    /\ e.deps = Given(e.pre_deps, {names[k].n : k \in {k \in 1..(j - 1) : names[k].dep}}, e.w)
    /\ e.progs = Given(e.pre_progs, {names[k].n : k \in {k \in 1..(j - 1) : ~names[k].dep}}, e.w)
    /\ names[j].n \in DOMAIN (IF names[j].dep THEN e.deps ELSE e.progs)
    /\ \A k \in 1..(j - 1) :
          names[k].n \notin DOMAIN (IF names[k].dep THEN e.pre_deps ELSE e.pre_progs)

\* C30, amended: when add_wrap(d) raises, it has stopped at the first name
\* of d that had an owner: the names of d before that one are registered to
\* d, that name keeps its owner, no later name is registered, and nothing
\* else in provided_deps and provided_programs has changed.
C30_AddWrapStopsAtConflict ==
    \A i \in AddWrapCalls :
        events[i].exc # ""
            => \E j \in 1..Len(NamesOf(heap[events[i].w])) :
                  StoppedAt(events[i], NamesOf(heap[events[i].w]), j)

\* a call of add_wrap raised after it had registered a name
C30_Witness ==
    \E i \in AddWrapCalls : events[i].exc # "" /\ events[i].deps # events[i].pre_deps

----------------------------------------------------------------------------
\* the descriptor that owns a provided name is the one wraps holds under
\* that descriptor's name
OwnerIsRegistered(reg) ==
    \A n \in DOMAIN reg :
        /\ heap[reg[n]].name \in DOMAIN wraps
        /\ wraps[heap[reg[n]].name] = reg[n]

\* find_dep_provider(n) names a subproject whose descriptor in wraps provides
\* n, with the variable that get_varname gives for it
ProviderProvides(n, found) ==
    /\ found[1] \in DOMAIN wraps
    /\ n \in DOMAIN heap[wraps[found[1]]].provided_deps
    /\ get_varname(found[1], n, wraps, heap) = found[2]

\* C31: after any sequence of load_wraps, get_from_wrapdb and merge_wraps the
\* registries are mutually consistent: every name of provided_deps or
\* provided_programs is owned by the descriptor that wraps holds under the
\* owner's name, so find_dep_provider(n) returns a subproject whose
\* descriptor in wraps provides n, with the variable get_varname returns.
C31_RegistriesConsistent ==
    /\ OwnerIsRegistered(provided_deps)
    /\ OwnerIsRegistered(provided_programs)
    /\ \A n \in DOMAIN provided_deps :
          ProviderProvides(n, find_dep_provider(n, provided_deps, heap, wrapdb_provided_deps))

----------------------------------------------------------------------------
\* a resolve call is past line 513, and the stages that run a transport or
\* apply the patch and the diff files
InCall == pc \notin {"new", "failed", "idle"}
AcquisitionStages == {"get_file", "get_git", "get_hg", "get_svn", "download", "unpack"}
PatchStages == {"patch", "unpack_patch", "diff"}
Removes(dir) == exists(fs, dir) /\ ~exists(fs', dir)
LogsRemoval == \E i \in (Len(events) + 1)..Len(events') : events'[i].k = "rmtree"

\* C32: a resolve call that found its target directory in place runs no
\* acquisition transport, applies neither the patch nor the diff files and
\* does not remove the directory, however it ends; a step that removes the
\* target directory belongs to a call that did not find it.
C32_ExistingDirUntouched ==
    [][InCall =>
          /\ call.found =>
                /\ pc' \notin AcquisitionStages \cup PatchStages
                /\ pc \notin AcquisitionStages \cup PatchStages
                /\ ~Removes(call.dirname)
                /\ pc' \in {"idle", "failed"} => ~LogsRemoval
          /\ Removes(call.dirname) => ~call.found]_vars

\* the call of S_present went past the probe with the directory in place and
\* ended for want of the root file
C32_Witness ==
    /\ pc = "idle"
    /\ res.op = "resolve"
    /\ res.at = "finish"
    /\ res.exc = "WrapException"
    /\ res.dirname = subdir_root \o <<"b">>
    /\ isfile(fs, subdir_root \o <<"b", "README">>)
    /\ isdir(fs, subdir_root \o <<"packagefiles", "b">>)
    /\ ~exists(fs, subdir_root \o <<"b", "meson.build">>)

----------------------------------------------------------------------------
\* get_file_internal(what) has just returned call.path for an artifact that
\* declares what_url
Artifact == IF pc = "unpack" THEN "source" ELSE "patch"
ReturnsPath ==
    /\ pc \in {"unpack", "unpack_patch"}
    /\ (Artifact \o "_url") \in DOMAIN heap[call.wrap].values
DigestDeclared(values, what, path) ==
    /\ isfile(fs, path)
    /\ (what \o "_hash") \in DOMAIN values
    /\ sha256(fs[path].v) = Lower(values[what \o "_hash"])
ReturnedFileVerified ==
    ReturnsPath => DigestDeclared(heap[call.wrap].values, Artifact, call.path)

\* get_file_internal(what) is about to be called and the cache holds a file
\* of the artifact's name with another digest
CallsGetFileInternal(what, values) ==
    /\ (what \o "_filename") \in DOMAIN values
    /\ (what \o "_url") \in DOMAIN values
    /\ IF what = "source" THEN pc = "get_file"
       ELSE pc = "patch" /\ "patch_directory" \notin DOMAIN values
StaleCache(what, values) ==
    /\ CallsGetFileInternal(what, values)
    /\ exists(fs, cachedir \o <<values[what \o "_filename"]>>)
    /\ ~DigestDeclared(values, what, cachedir \o <<values[what \o "_filename"]>>)
Downloads(log) == {i \in DOMAIN log : log[i].k \in {"download", "net", "fetched"}}
StaleCacheFails(what, values) ==
    StaleCache(what, values) =>
        /\ pc' = "idle"
        /\ res'.exc = "WrapException"
        /\ exists(fs', cachedir \o <<values[what \o "_filename"]>>)
        /\ fs'[cachedir \o <<values[what \o "_filename"]>>]
              = fs[cachedir \o <<values[what \o "_filename"]>>]
        /\ Downloads(events') = Downloads(events)

\* C33: a path that get_file_internal returns for an artifact with a
\* what_url names a file whose SHA-256 digest is the declared what_hash in
\* lower case, from the cache or freshly downloaded; a cached file with
\* another digest makes the call raise, stays as it is and no download is
\* made in its place.
C33_ReturnedFileVerified ==
    [][/\ ReturnedFileVerified'
       /\ InCall /\ call.wrap # <<>> =>
             \A what \in {"source", "patch"} : StaleCacheFails(what, heap[call.wrap].values)]_vars

\* the archive of S_cached was taken from the cache, no download made
C33_Witness ==
    /\ ReturnsPath
    /\ call.path = cachedir \o <<"src-1.0.tgz">>
    /\ heap[call.wrap].values["source_hash"] = "H(SRC-1.0)"
    /\ Downloads(events) = {}

----------------------------------------------------------------------------
\* the temporary files of the cache directory; no run starts with one
TempFiles == {p \in DOMAIN fs : dirname(p) = cachedir /\ fs[p].k = "tmp"}

\* C34: when download has returned or raised, the cache directory holds no
\* temporary file made during the call: each file that a get_data attempt
\* made was renamed to the cache path or deleted, those of retried attempts
\* and of the attempt that the fallback URL replaced included.
C34_NoTempFileLeft == pc # "download" => TempFiles = {}

----------------------------------------------------------------------------
\* what check_can_download guards: a request over the network (get_data, the
\* fetch of a wrap file from the registry) and the commands of get_git,
\* get_hg and get_svn; the commands of the submodule probe are not among them
ProbeCommands == {"rev-parse", "submodule status", "submodule update", "checkout"}
IsDownload(e) ==
    \/ e.k \in {"net", "download", "get_data", "fetched"}
    \/ e.k = "proc" /\ (e.tool # "git" \/ e.sub \notin ProbeCommands)
Refused == pc = "idle" /\ res.op = "resolve" /\ res.exc = "WrapException"

\* C35: with wrap mode nodownload no resolve call downloads through
\* get_data, fetches a wrap file from the registry or clones with git, hg or
\* svn, check_can_download raising before each; extraction of cached or
\* shipped archives and the submodule commands on a directory in place are
\* all that run.
C35_NoDownloadWhenDisabled ==
    cfg.wrap_mode = "nodownload" =>
        /\ \A i \in DOMAIN events : ~IsDownload(events[i])
        /\ pc \notin {"get_git", "get_hg", "get_svn"}
        /\ \A p \in DOMAIN fs : fs[p].k # "tmp"

\* the wrap file of d is listed in wrapdb.json and the call for d was refused
C35_Witness ==
    /\ cfg.wrap_mode = "nodownload"
    /\ Refused
    /\ res.at = "head"
    /\ res.args.name = "d"
    /\ "d" \in DOMAIN wrapdb
    /\ "d" \notin DOMAIN wraps

----------------------------------------------------------------------------
\* a call of resolve ended when the interpreter's stack was used up
StackExhausted == pc = "idle" /\ res.op = "resolve" /\ res.exc = "RecursionError"

\* C36: every resolve call returns or raises after a bounded number of
\* recursive calls, whatever the method: the call that method cargo makes
\* after acquisition does not call resolve again and again when the package
\* is not in the manifests or the root file is missing, so no call goes on
\* until the stack is used up.
C36_ResolveTerminates == ~StackExhausted

----------------------------------------------------------------------------
\* the constructor of a descriptor, called by load_wraps or by
\* get_from_wrapdb, followed redirects until the stack was used up
RedirectsWithoutEnd ==
    /\ res.exc = "RecursionError"
    /\ \/ res.op = "init"
       \/ res.op = "resolve" /\ res.at = "head"

\* C37: constructing a descriptor from a wrap-redirect file terminates: for
\* every filename that passes the checks of the redirect, the chain of
\* redirects parse_wrap follows is finite, each hop leading to another,
\* deeper file, and parsing ends with a descriptor that is no redirect or
\* with a parse error.
C37_RedirectChainEnds == ~RedirectsWithoutEnd

----------------------------------------------------------------------------
\* the hash file of the run's first state is there and the wrap file that
\* defines the subproject, the target of the redirect when the descriptor
\* went through one, has another text than when the file was written
DefiningText(w) == fs[w.filename].v
ChangedSince(w, hashfile) ==
    /\ cfg.recorded.known
    /\ isfile(fs, hashfile)
    /\ isfile(fs, w.filename)
    /\ cfg.recorded.text # DefiningText(w)
Warns == \E i \in 1..Len(events') : events'[i] = DriftWarning

\* C38: on the fast path, when the hash file is there and the text of the
\* wrap file that defines the subproject has changed since it was written,
\* validate logs the out-of-date warning, also for a descriptor reached
\* through a redirect file whose target is the file that changed.
C38_ChangedWrapFileWarns ==
    [][FastPath /\ Known(RequestedArgs) /\ heap[wraps[RequestedArgs.name]].has_wrap
           /\ ~Existing(RequestedArgs)
           /\ ChangedSince(heap[wraps[RequestedArgs.name]], HashFileOf(res'.ret[1]))
           => Warns]_vars

----------------------------------------------------------------------------
\* get_data(res.args) has run: the URL it was given, the credentials that
\* went out with the request, and the conditions on the URL
AskedUrl == urlparse(res.args)
Attached == {i \in DOMAIN events : events[i].k = "credentials"}
HostHasEntry == ~cfg.netrc.none /\ AskedUrl.hostname \in DOMAIN cfg.netrc.map
NoUserInfo == ~Contains(AskedUrl.netloc, "@")
RegistryHost == AskedUrl.hostname = WHITELIST_SUBDOMAIN
MayAttach == HostHasEntry /\ NoUserInfo /\ ~RegistryHost
AttachedAs(how) == \A i \in Attached : events[i].how = how

\* C39: get_data sends credentials of the netrc file only when the host of
\* the URL has an entry there, the URL has no user info, the host is not
\* the registry and the scheme is https (Authorization header) or ftp (in
\* the URL); with those conditions on the host and any other scheme, no
\* credentials go out and a warning is logged.
C39_NetrcCredentials ==
    pc = "done" =>
        /\ Attached # {} =>
              /\ MayAttach
              /\ AskedUrl.scheme \in {"https", "ftp"}
              /\ AttachedAs(IF AskedUrl.scheme = "https" THEN "Authorization" ELSE "netloc")
        /\ MayAttach /\ AskedUrl.scheme \notin {"https", "ftp"} =>
              /\ Attached = {}
              /\ \E i \in DOMAIN events : events[i] = NetrcWarning

====
